---- MODULE Spec2Model ----
(***************************************************************************)
(* FilmBuff-AI: response caches (Hierarchical_crew.py, Crew.py), the rate  *)
(* limiter (Gradio.py) and the two query pipelines                         *)
(* (process_optimized_query, process_film_buff_query) as state machines.   *)
(*                                                                         *)
(* Text is a sequence of one-character strings, so that lower(), strip(),  *)
(* len() and the `in` substring test are computed and not assumed.         *)
(***************************************************************************)
EXTENDS Integers, Sequences, FiniteSets, TLC

VARIABLES
    mode,       \* which component this behaviour exercises
    now,        \* the wall clock (days for the disk cache, seconds for the limiter)
    cache,      \* Hierarchical_crew.QueryCache.cache : digest -> <<value, timestamp>>
    disk,       \* contents of query_cache.pkl
    stored,     \* history: per raw query, what this process last stored for it and when
    lastSave,   \* history: how the save_cache of the step just taken ended
    lastLoad,   \* history: the step just taken was load_cache, of the file as it is now
    lastGet,    \* history: the QueryCache.get call that has just returned, and its value
    bcache,     \* Crew.QueryCache.cache : insertion-ordered <<key, value>> pairs
    bhist,      \* history: the set() calls made on the bounded cache since it was empty
    blastGet,   \* history: the bounded get call that has just returned, and its value
    rl_calls,   \* RateLimiter.calls : list of timestamps
    rl_lock,    \* RateLimiter.lock : 0 when free, else the thread holding it
    rl_pc,      \* per thread: where it is in can_proceed / time_until_available
    rl_op,      \* per thread: the RateLimiter method it was called with
    rl_now,     \* per thread: its local variable now
    rl_ret,     \* per thread: what its last can_proceed returned
    rl_wait,    \* per thread: what its last time_until_available returned
    rl_adm,     \* history: how many calls were admitted with each timestamp
    rl_last,    \* history: the can_proceed decision just taken, and the method it was taken in
    p_pc,       \* the pipeline call: the handler invocation it is about to make
    p_query,    \* the pipeline call: its argument
    p_route,    \* query_type and required_agents / manager_analysis and target_agent
    p_first,    \* specialist_result of the first dispatch
    p_improved, \* improved_result of the retry
    p_tasks,    \* tasks: the specialist tasks built from the delegation plan (a local)
    p_ret,      \* what the call returned (or raised)
    p_stages,   \* history: the handler invocations of this call, in order
    p_look,     \* history: what the cache lookup at the start of the call returned
    p_snap,     \* history: the cache tables and the file at the start of the call
    p_err,      \* history: the error a handler raised in this call
    c_pc,       \* classifier: "called" once classify_query_intent has returned
    c_query,    \* classifier: the query of the last call
    c_result,   \* classifier: (query_type, required_agents) of the last call
    c_prev,     \* history: what the call before returned, if for the same query
    s_pc,       \* per thread in QueryCache.set: the statement it is about to execute
    s_arg,      \* per thread: the (query, result) it was called with
    s_buf,      \* per thread: the table its pickle.dump serialized
    s_open,     \* the threads that hold query_cache.pkl open for writing
    s_clash,    \* per thread: another writer had the file open while it did
    m_pc,       \* per thread in process_message: the statement it is about to execute
    m_msg,      \* per thread: the message it was called with
    m_last,     \* history: what the process_message call that has just ended produced
    m_starts,   \* history: how many process_optimized_query calls began at each second
    t_pc,       \* make_tmdb_request: "request" while an HTTP request is due
    t_reqs,     \* history: the HTTP requests this call has issued
    t_seen,     \* history: the upstream responses this call has received
    t_slept,    \* the seconds this call has spent in time.sleep
    t_ret       \* what the call returned (or raised)

cachevars == <<cache, disk, stored, lastGet, bcache, bhist, blastGet>>
rlvars == <<rl_calls, rl_lock, rl_pc, rl_op, rl_now, rl_ret, rl_wait, rl_adm, rl_last>>
pvars == <<p_pc, p_query, p_route, p_first, p_improved, p_tasks, p_ret, p_stages, p_look, p_snap, p_err>>
cvars == <<c_pc, c_query, c_result, c_prev>>
filevars == <<lastSave, lastLoad>>
svars == <<s_pc, s_arg, s_buf, s_open, s_clash>>
mvars == <<m_pc, m_msg, m_last, m_starts>>
tvars == <<t_pc, t_reqs, t_seen, t_slept, t_ret>>
vars == <<mode, now, cachevars, filevars, rlvars, pvars, cvars, svars, mvars, tvars>>

-----------------------------------------------------------------------------
(* Bounds of the model *)

\* the clock stops advancing here
MaxTime == 3

\* QueryCache(expiry_days=...): the expiry window in days (the code's default is 7)
expiry_days == 2

\* QueryCache(max_size=...): capacity of the bounded cache (the code's default is 100)
max_size == 2

\* RateLimiter(max_calls=..., period=...) (Gradio.py constructs it with 5 and 60)
max_calls == 2
period == 2

\* threads calling the rate limiter concurrently
NumThreads == 2

-----------------------------------------------------------------------------
(* Text *)

UpperChars == <<"A","B","C","D","E","F","G","H","I","J","K","L","M",
                "N","O","P","Q","R","S","T","U","V","W","X","Y","Z",
                "Á","É","Ê","Í","Ó","Õ","Ú","Ç","Ã">>
LowerChars == <<"a","b","c","d","e","f","g","h","i","j","k","l","m",
                "n","o","p","q","r","s","t","u","v","w","x","y","z",
                "á","é","ê","í","ó","õ","ú","ç","ã">>

\* the characters str.strip() removes
Whitespace == {" ", "\t", "\n", "\r"}

LowerOf ==
    [c \in {UpperChars[i] : i \in 1..Len(UpperChars)} |->
        LowerChars[CHOOSE i \in 1..Len(UpperChars) : UpperChars[i] = c]]

LowerChar(c) == IF c \in DOMAIN LowerOf THEN LowerOf[c] ELSE c

\* str.lower()
Lower(s) == [i \in 1..Len(s) |-> LowerChar(s[i])]

\* str.strip()
Strip(s) ==
    LET idx == {i \in 1..Len(s) : s[i] \notin Whitespace}
    IN IF idx = {} THEN <<>>
       ELSE LET lo == CHOOSE i \in idx : \A j \in idx : i <= j
                hi == CHOOSE i \in idx : \A j \in idx : j <= i
            IN SubSeq(s, lo, hi)

\* pat in s
Contains(s, pat) ==
    \E i \in 0..(Len(s) - Len(pat)) :
        \A j \in 1..Len(pat) : s[i + j] = pat[j]

ContainsAny(s, pats) == \E p \in pats : Contains(s, p)

Rep(c, n) == [i \in 1..n |-> c]

\* Optional[str]
None == [some |-> FALSE, val |-> <<>>]
Some(v) == [some |-> TRUE, val |-> v]

\* Python truthiness of an Optional[str]: None and "" are falsy
Truthy(o) == o.some /\ o.val # <<>>

-----------------------------------------------------------------------------
(* Sample inputs *)

Q_Trending == <<"T","r","e","n","d","i","n","g">>
Q_trending_sp == <<" ","t","r","e","n","d","i","n","g"," ">>
Q_StarWarsLike == <<"s","t","a","r"," ","w","a","r","s"," ","s","i","m","i","l","a","r">>
Q_about == <<"a","b","o","u","t"," ","x">>
Q_quem == <<"Q","u","e","m">>

\* the queries the cache operations are called with: "Ab", " aB\n", "c"
Q_Ab == <<"A","b">>
Q_aB_sp == <<" ","a","B","\n">>
Q_c == <<"c">>
CacheQueries == {Q_Ab, Q_aB_sp, Q_c}

\* the results the cache operations are called with
CacheTexts == {<<>>, <<"x">>}

-----------------------------------------------------------------------------
(* Hierarchical_crew.QueryCache: a dict digest -> (value, timestamp),      *)
(* pickled to query_cache.pkl on every set.                                *)

EmptyTable == [k \in {} |-> <<>>]

\* hashlib.md5(...).hexdigest(): the digest is taken to be collision free, so
\* it is represented by the text it digests
md5(text) == [md5 |-> text]

get_query_hash_nolower(query) == md5(Strip(query))

get_query_hash(query) == md5(Strip(Lower(query)))

QueryCache_get(c, query) ==
    LET query_hash == get_query_hash(query)
    IN IF query_hash \in DOMAIN c THEN Some(c[query_hash][1]) ELSE None

\* a set that keeps an entry already present (dict.setdefault)
QueryCache_set_keep(c, query, result, t) ==
    LET query_hash == get_query_hash(query)
    IN [k \in DOMAIN c \cup {query_hash} |->
            IF k \in DOMAIN c THEN c[k] ELSE <<result, t>>]

\* self.cache[query_hash] = (result, datetime.now())
QueryCache_set(c, query, result, t) ==
    LET query_hash == get_query_hash(query)
    IN [k \in DOMAIN c \cup {query_hash} |->
            IF k = query_hash THEN <<result, t>> ELSE c[k]]

\* an entry is purged on the day its age reaches the window
clean_expired_ge(c, t) ==
    LET expired_keys == {k \in DOMAIN c : t - c[k][2] >= expiry_days}
    IN [k \in DOMAIN c \ expired_keys |-> c[k]]

\* for key, (value, timestamp) in self.cache.items(): now - timestamp > timedelta(days)
clean_expired(c, t) ==
    LET expired_keys == {k \in DOMAIN c : t - c[k][2] > expiry_days}
    IN [k \in DOMAIN c \ expired_keys |-> c[k]]

\* the file: absent, unreadable or not a pickle, the pickle of an object
\* that is not a dict, or the pickle of a dict
NoFile == [kind |-> "none", table |-> EmptyTable]
Corrupt == [kind |-> "corrupt", table |-> EmptyTable]
NotDict == [kind |-> "notdict", table |-> EmptyTable]
Pickled(c) == [kind |-> "table", table |-> c]

\* the entry unpacks as (value, timestamp)
WellFormed(entry) == Len(entry) = 2

\* the first loop of _clean_expired raises (before any key is deleted)
SweepFails(c) == \E k \in DOMAIN c : ~WellFormed(c[k])

\* how open(..., "wb") / pickle.dump can end: the table is written; open fails
\* and the file is untouched; dump fails after open truncated the file
SaveOutcomes == {"written", "open_failed", "dump_failed"}

\* the error of a failed write leaves save_cache
SaveRaises_propagate(outcome) == outcome # "written"

\* except Exception as e: print(...) -- nothing leaves save_cache
SaveRaises(outcome) == FALSE

NoSave == [outcome |-> "none", raised |-> FALSE]
Saved(outcome) == [outcome |-> outcome, raised |-> SaveRaises(outcome)]

save_cache(c, d, outcome) ==
    CASE outcome = "written" -> Pickled(c)
      [] outcome = "open_failed" -> d
      [] outcome = "dump_failed" -> Corrupt

\* __init__ + load_cache at time t, from file d
load_cache_partial(d, t) ==
    IF d.kind \in {"none", "corrupt", "notdict"} THEN EmptyTable
    ELSE clean_expired([k \in {x \in DOMAIN d.table : WellFormed(d.table[x])}
                            |-> d.table[k]], t)

\* __init__ + load_cache at time t, from file d: no file; open or pickle.load
\* raises; .items() raises; the unpacking raises; the sweep
load_cache(d, t) ==
    IF d.kind = "none" THEN EmptyTable
    ELSE IF d.kind = "corrupt" THEN EmptyTable
    ELSE IF d.kind = "notdict" THEN EmptyTable
    ELSE IF SweepFails(d.table) THEN EmptyTable
    ELSE clean_expired(d.table, t)

\* the digest of each sample query, and its text lower-cased and trimmed
KeyOf == [q \in CacheQueries |-> get_query_hash(q)]
NormOf == [q \in CacheQueries |-> Strip(Lower(q))]

NothingStored == [q \in CacheQueries |-> [some |-> FALSE, val |-> <<>>, at |-> 0]]
NoGet == [called |-> FALSE, q |-> <<>>, ret |-> None]

\* the set() calls made on the bounded cache since it was constructed: how many
\* (counted up to max_size + 2) and the last max_size + 1 of them
NoHistory == [count |-> 0, calls |-> <<>>]

\* state of the components a behaviour does not exercise
IdleHCache ==
    /\ cache = EmptyTable /\ disk = NoFile
    /\ stored = NothingStored /\ lastGet = NoGet
    /\ lastSave = NoSave /\ lastLoad = FALSE

\* files another program may leave in place of query_cache.pkl: a pickled
\* list; a dict with an entry of one item; a dict with an old entry, a
\* current one and one of three items
BadTable1 == [k \in {KeyOf[Q_c]} |-> <<<<"x">> >>]
BadTable2 ==
    [k \in {KeyOf[Q_Ab], KeyOf[Q_c], get_query_hash(Q_Trending)} |->
        IF k = KeyOf[Q_Ab] THEN <<<<"x">>, 0>>
        ELSE IF k = KeyOf[Q_c] THEN <<<<"x">>, 0, 0>>
        ELSE <<<<"x">>, MaxTime>>]
DamagedFiles == {NotDict, Pickled(BadTable1), Pickled(BadTable2)}
IdleBCache == bcache = <<>> /\ bhist = NoHistory /\ blastGet = NoGet

NoRoute == [type |-> "none", agents |-> <<>>]
NoRet == [kind |-> "none", text |-> <<>>]

Writers == 1..NumThreads
NoArg == [query |-> <<>>, result |-> <<>>]

\* no thread is inside QueryCache.set
IdleStores ==
    /\ s_pc = [t \in Writers |-> "idle"]
    /\ s_arg = [t \in Writers |-> NoArg]
    /\ s_buf = [t \in Writers |-> EmptyTable]
    /\ s_open = {}
    /\ s_clash = [t \in Writers |-> FALSE]

\* classify_query_intent has not been called
IdleClassify ==
    /\ c_pc = "idle" /\ c_query = <<>> /\ c_result = NoRoute /\ c_prev = None

\* no pipeline call has been made
IdlePipe ==
    /\ p_pc = "idle" /\ p_query = <<>> /\ p_route = NoRoute /\ p_first = <<>>
    /\ p_tasks = <<>> /\ p_improved = <<>>
    /\ p_ret = NoRet /\ p_stages = <<>> /\ p_look = None
    /\ p_snap = <<EmptyTable, NoFile, <<>> >> /\ p_err = None

RLThreads == 1..NumThreads
Times == 0..MaxTime
NoDecision == [called |-> FALSE, ret |-> FALSE, inWindow |-> 0, op |-> "none"]
NoWait == [kind |-> "none", v |-> 0]

\* RateLimiter.__init__
IdleLimiter ==
    /\ rl_calls = <<>> /\ rl_lock = 0
    /\ rl_pc = [t \in RLThreads |-> "idle"]
    /\ rl_op = [t \in RLThreads |-> "none"]
    /\ rl_now = [t \in RLThreads |-> 0]
    /\ rl_ret = [t \in RLThreads |-> FALSE]
    /\ rl_wait = [t \in RLThreads |-> NoWait]
    /\ rl_adm = [x \in Times |-> 0]
    /\ rl_last = NoDecision

\* what a process_message call hands to the interface
NoOutput == [kind |-> "none", text |-> <<>>, indicator |-> FALSE,
             hit |-> FALSE, err |-> None, wait |-> 0]

\* no thread is inside process_message
IdleMessages ==
    /\ m_pc = [t \in RLThreads |-> "idle"]
    /\ m_msg = [t \in RLThreads |-> <<>>]
    /\ m_last = NoOutput
    /\ m_starts = [x \in Times |-> 0]

\* what make_tmdb_request hands back
NoResult == [kind |-> "none", error |-> <<>>, results |-> <<>>]

\* make_tmdb_request has not been called
IdleClient ==
    /\ t_pc = "idle" /\ t_reqs = 0 /\ t_seen = <<>> /\ t_slept = 0
    /\ t_ret = NoResult

InitHCache ==
    /\ mode = "hcache" /\ now = 0
    /\ IdleHCache /\ IdleBCache /\ IdleLimiter /\ IdlePipe /\ IdleClassify
    /\ IdleStores /\ IdleMessages /\ IdleClient

\* query_cache.set(q, r)
HSet(q, r, outcome) ==
    /\ mode = "hcache"
    /\ cache' = QueryCache_set(cache, q, r, now)
    /\ disk' = save_cache(cache', disk, outcome)
    /\ stored' = [x \in CacheQueries |->
                    IF x = q THEN [some |-> TRUE, val |-> r, at |-> now]
                    ELSE IF KeyOf[x] = KeyOf[q]
                         THEN NothingStored[x] ELSE stored[x]]
    /\ lastGet' = NoGet
    /\ lastSave' = Saved(outcome)
    /\ lastLoad' = FALSE
    /\ UNCHANGED <<mode, tvars, mvars, svars, cvars, now, bcache, bhist, blastGet, rlvars, pvars>>

\* query_cache.get(q)
HGet(q) ==
    /\ mode = "hcache"
    /\ lastGet' = [called |-> TRUE, q |-> q, ret |-> QueryCache_get(cache, q)]
    /\ lastSave' = NoSave
    /\ UNCHANGED <<mode, tvars, mvars, svars, cvars, lastLoad, now, cache, disk, stored, bcache, bhist, blastGet, rlvars, pvars>>

\* the process is restarted: QueryCache() loads the file
HRestart ==
    /\ mode = "hcache"
    /\ cache' = load_cache(disk, now)
    /\ stored' = NothingStored
    /\ lastGet' = NoGet
    /\ lastSave' = NoSave
    /\ lastLoad' = TRUE
    /\ UNCHANGED <<mode, tvars, mvars, svars, cvars, now, disk, bcache, bhist, blastGet, rlvars, pvars>>

\* Gradio.clear_history_and_cache: query_cache.cache = {}; save_cache()
HClear(outcome) ==
    /\ mode = "hcache"
    /\ cache' = EmptyTable
    /\ disk' = save_cache(cache', disk, outcome)
    /\ stored' = NothingStored
    /\ lastGet' = NoGet
    /\ lastSave' = Saved(outcome)
    /\ lastLoad' = FALSE
    /\ UNCHANGED <<mode, tvars, mvars, svars, cvars, now, bcache, bhist, blastGet, rlvars, pvars>>

\* a day passes
HTick ==
    /\ mode = "hcache"
    /\ now < MaxTime
    /\ now' = now + 1
    /\ lastGet' = NoGet
    /\ lastSave' = NoSave
    /\ lastLoad' = FALSE
    /\ UNCHANGED <<mode, tvars, mvars, svars, cvars, cache, disk, stored, bcache, bhist, blastGet, rlvars, pvars>>

\* query_cache.pkl is replaced from outside the program
HFileDamaged(d) ==
    /\ mode = "hcache"
    /\ disk # d
    /\ disk' = d
    /\ lastGet' = NoGet
    /\ lastSave' = NoSave
    /\ lastLoad' = FALSE
    /\ UNCHANGED <<mode, tvars, mvars, svars, cvars, now, cache, stored, bcache, bhist, blastGet, rlvars, pvars>>

HSetAny == \E q \in CacheQueries, r \in CacheTexts, o \in SaveOutcomes : HSet(q, r, o)
HGetAny == \E q \in CacheQueries : HGet(q)
HClearAny == \E o \in SaveOutcomes : HClear(o)
HFileDamagedAny == \E d \in DamagedFiles : HFileDamaged(d)

NextHCache == HSetAny \/ HGetAny \/ HRestart \/ HClearAny \/ HTick \/ HFileDamagedAny

SpecHCache == InitHCache /\ [][NextHCache]_vars

-----------------------------------------------------------------------------
(* Crew.QueryCache (and its copy in Tests/Uptadet_crew.py): a dict of at   *)
(* most max_size entries, kept here in insertion order as <<key, value>>.  *)

\* the keys and values the bounded cache is called with
BKeys == {Q_Ab, Q_aB_sp, Q_c, Q_Trending}

BIndex(c, key) == CHOOSE i \in 1..Len(c) : c[i][1] = key
BHas(c, key) == \E i \in 1..Len(c) : c[i][1] = key

\* self.cache.get(key)
BoundedCache_get(c, key) ==
    IF BHas(c, key) THEN Some(c[BIndex(c, key)][2]) ELSE None

\* self.cache[key] = value: an existing key keeps its place in the order
DictAssign(c, key, value) ==
    IF BHas(c, key)
    THEN [c EXCEPT ![BIndex(c, key)] = <<key, value>>]
    ELSE Append(c, <<key, value>>)

\* eviction of the newest entry instead of the oldest
BoundedCache_set_lifo(c, key, value) ==
    DictAssign(IF Len(c) >= max_size THEN SubSeq(c, 1, Len(c) - 1) ELSE c, key, value)

\* if len(self.cache) >= self.max_size: self.cache.pop(next(iter(self.cache)))
BoundedCache_set(c, key, value) ==
    DictAssign(IF Len(c) >= max_size THEN Tail(c) ELSE c, key, value)

Record(h, key, value) ==
    [count |-> IF h.count < max_size + 2 THEN h.count + 1 ELSE h.count,
     calls |-> IF Len(h.calls) < max_size + 1
               THEN Append(h.calls, <<key, value>>)
               ELSE Append(Tail(h.calls), <<key, value>>)]

InitBCache ==
    /\ mode = "bcache" /\ now = 0
    /\ IdleHCache /\ IdleBCache /\ IdleLimiter /\ IdlePipe /\ IdleClassify
    /\ IdleStores /\ IdleMessages /\ IdleClient

\* query_cache.set(key, value)
BSet(key, value) ==
    /\ mode = "bcache"
    /\ bcache' = BoundedCache_set(bcache, key, value)
    /\ bhist' = Record(bhist, key, value)
    /\ blastGet' = NoGet
    /\ UNCHANGED <<mode, tvars, mvars, svars, cvars, filevars, now, cache, disk, stored, lastGet, rlvars, pvars>>

\* query_cache.get(key)
BGet(key) ==
    /\ mode = "bcache"
    /\ blastGet' = [called |-> TRUE, q |-> key, ret |-> BoundedCache_get(bcache, key)]
    /\ UNCHANGED <<mode, tvars, mvars, svars, cvars, filevars, now, cache, disk, stored, lastGet, bcache, bhist, rlvars, pvars>>

BSetAny == \E k \in BKeys, v \in CacheTexts : BSet(k, v)
BGetAny == \E k \in BKeys : BGet(k)

NextBCache == BSetAny \/ BGetAny

SpecBCache == InitBCache /\ [][NextBCache]_vars

----------------------------------------------------------------------------
(* Hierarchical_crew.QueryCache.set called from several threads. The class  *)
(* has no lock: the assignment, open(..., "wb"), pickle.dump and the close  *)
(* of the with block are separate steps of each thread.                     *)

InitStores ==
    /\ mode = "stores" /\ now = 0
    /\ IdleHCache /\ IdleBCache /\ IdleLimiter /\ IdlePipe /\ IdleClassify
    /\ IdleStores /\ IdleMessages /\ IdleClient

\* what the file holds after a writer closes it: its own pickle when no
\* other writer had the file open meanwhile; otherwise the bytes of two
\* dumps written over each other, which may or may not unpickle
CloseOutcomes(buf, clash) ==
    IF clash THEN {Pickled(buf), Corrupt} ELSE {Pickled(buf)}

\* a thread calls query_cache.set(q, r)
SCall(t, q, r) ==
    /\ mode = "stores"
    /\ s_pc[t] = "idle"
    /\ s_pc' = [s_pc EXCEPT ![t] = "assign"]
    /\ s_arg' = [s_arg EXCEPT ![t] = [query |-> q, result |-> r]]
    /\ UNCHANGED <<mode, tvars, mvars, now, cachevars, filevars, rlvars, pvars, cvars,
                   s_buf, s_open, s_clash>>

\* self.cache[query_hash] = (result, datetime.now())
SAssign(t) ==
    /\ mode = "stores"
    /\ s_pc[t] = "assign"
    /\ cache' = QueryCache_set(cache, s_arg[t].query, s_arg[t].result, now)
    /\ s_pc' = [s_pc EXCEPT ![t] = "open"]
    /\ UNCHANGED <<mode, tvars, mvars, now, disk, stored, lastGet, bcache, bhist, blastGet,
                   filevars, rlvars, pvars, cvars, s_arg, s_buf, s_open, s_clash>>

\* with open(self.cache_file, "wb") as f: the file is truncated
SOpen(t) ==
    /\ mode = "stores"
    /\ s_pc[t] = "open"
    /\ disk' = Corrupt
    /\ s_open' = s_open \cup {t}
    /\ s_clash' = [w \in Writers |->
                      IF s_open = {} THEN (w # t /\ s_clash[w])
                      ELSE (w \in s_open \cup {t}) \/ s_clash[w]]
    /\ s_pc' = [s_pc EXCEPT ![t] = "dump"]
    /\ UNCHANGED <<mode, tvars, mvars, now, cache, stored, lastGet, bcache, bhist, blastGet,
                   filevars, rlvars, pvars, cvars, s_arg, s_buf>>

\* pickle.dump(self.cache, f): the table as it is now goes to the buffer
SDump(t) ==
    /\ mode = "stores"
    /\ s_pc[t] = "dump"
    /\ s_buf' = [s_buf EXCEPT ![t] = cache]
    /\ s_pc' = [s_pc EXCEPT ![t] = "close"]
    /\ UNCHANGED <<mode, tvars, mvars, now, cachevars, filevars, rlvars, pvars, cvars,
                   s_arg, s_open, s_clash>>

\* the with block ends: the buffer is flushed, the file closed, set returns
SClose(t, d) ==
    /\ mode = "stores"
    /\ s_pc[t] = "close"
    /\ d \in CloseOutcomes(s_buf[t], s_clash[t])
    /\ disk' = d
    /\ s_open' = s_open \ {t}
    /\ s_pc' = [s_pc EXCEPT ![t] = "idle"]
    /\ s_buf' = [s_buf EXCEPT ![t] = EmptyTable]
    /\ s_arg' = [s_arg EXCEPT ![t] = NoArg]
    /\ UNCHANGED <<mode, tvars, mvars, now, cache, stored, lastGet, bcache, bhist, blastGet,
                   filevars, rlvars, pvars, cvars, s_clash>>

StoreQueries == {Q_Ab, Q_c}

SCallAny(t) == \E q \in StoreQueries, r \in CacheTexts : SCall(t, q, r)
SCloseAny(t) == \E d \in {Corrupt} \cup {Pickled(s_buf[t])} : SClose(t, d)

SStep(t) == SCallAny(t) \/ SAssign(t) \/ SOpen(t) \/ SDump(t) \/ SCloseAny(t)

NextStores == \E t \in Writers : SStep(t)

SpecStores == InitStores /\ [][NextStores]_vars

\* both caches
SpecCaches == (InitHCache \/ InitBCache) /\ [][NextHCache \/ NextBCache]_vars

-----------------------------------------------------------------------------
(* Gradio.RateLimiter: a sliding window of admission timestamps.           *)
(* can_proceed reads the clock, then takes the lock for the filter and the *)
(* admission; time_until_available calls can_proceed and, when denied,     *)
(* takes the lock again to compute the wait.                               *)

InitLimiter ==
    /\ mode = "limiter" /\ now = 0
    /\ IdleHCache /\ IdleBCache /\ IdleLimiter /\ IdlePipe /\ IdleClassify
    /\ IdleStores /\ IdleMessages /\ IdleClient

\* the behaviours in which the limiter steps run: on its own, and under
\* process_message
LimiterModes == {"limiter", "message"}

\* min(self.calls)
Min(seq) == CHOOSE x \in {seq[i] : i \in 1..Len(seq)} :
                \A j \in 1..Len(seq) : x <= seq[j]

\* a filter that keeps every timestamp
DropExpired_none(calls, t) == calls

\* [t for t in self.calls if now - t < self.period]
DropExpired(calls, t) ==
    LET Fresh(x) == t - x < period IN SelectSeq(calls, Fresh)

\* len(self.calls) < self.max_calls
UnderLimit(calls) == Len(calls) < max_calls

\* admissions recorded so far whose timestamp lies in the period before t
InWindow(adm, t) ==
    LET Sum[i \in 0..(MaxTime + 1)] ==
            IF i > MaxTime THEN 0
            ELSE (IF t - i < period /\ i <= t THEN adm[i] ELSE 0) + Sum[i + 1]
    IN Sum[0]

\* a thread calls can_proceed() or time_until_available(): now = time.time()
RLCall(t, op) ==
    /\ mode = "limiter"
    /\ rl_pc[t] = "idle"
    /\ rl_op' = [rl_op EXCEPT ![t] = op]
    /\ rl_now' = [rl_now EXCEPT ![t] = now]
    /\ rl_pc' = [rl_pc EXCEPT ![t] = "cp_lock"]
    /\ rl_wait' = [rl_wait EXCEPT ![t] = NoWait]
    /\ rl_last' = NoDecision
    /\ UNCHANGED <<mode, tvars, mvars, svars, cvars, filevars, now, cachevars, pvars, rl_calls, rl_lock, rl_ret, rl_adm>>

\* with self.lock: self.calls = [...]
CpFilter(t) ==
    /\ mode \in LimiterModes
    /\ rl_pc[t] = "cp_lock"
    /\ rl_lock = 0
    /\ rl_lock' = t
    /\ rl_calls' = DropExpired(rl_calls, rl_now[t])
    /\ rl_pc' = [rl_pc EXCEPT ![t] = "cp_check"]
    /\ rl_last' = NoDecision
    /\ m_last' = NoOutput
    /\ UNCHANGED <<mode, tvars, m_pc, m_msg, m_starts, svars, cvars, filevars, now, cachevars, pvars, rl_op, rl_now, rl_ret, rl_wait, rl_adm>>

\* if len(self.calls) < self.max_calls: append, return True; else return False
CpDecide(t) ==
    /\ mode \in LimiterModes
    /\ rl_pc[t] = "cp_check"
    /\ rl_lock = t
    /\ LET ok == UnderLimit(rl_calls)
       IN /\ rl_calls' = IF ok THEN Append(rl_calls, rl_now[t]) ELSE rl_calls
          /\ rl_ret' = [rl_ret EXCEPT ![t] = ok]
          /\ rl_adm' = IF ok
                       THEN [rl_adm EXCEPT ![rl_now[t]] = @ + 1]
                       ELSE rl_adm
          /\ rl_last' = [called |-> TRUE, ret |-> ok,
                         inWindow |-> InWindow(rl_adm, rl_now[t]),
                         op |-> rl_op[t]]
          /\ rl_pc' = [rl_pc EXCEPT ![t] =
                          IF rl_op[t] = "time_until_available" /\ ~ok
                          THEN "tua_lock" ELSE "idle"]
          /\ rl_wait' = [rl_wait EXCEPT ![t] =
                          IF rl_op[t] = "time_until_available" /\ ok
                          THEN [kind |-> "value", v |-> 0] ELSE @]
    /\ rl_lock' = 0
    /\ m_last' = NoOutput
    /\ UNCHANGED <<mode, tvars, m_pc, m_msg, m_starts, svars, cvars, filevars, now, cachevars, pvars, rl_op, rl_now>>

\* with self.lock: now = time.time(); oldest_call = min(self.calls);
\* return int(self.period - (now - oldest_call)) + 1
TuaCompute(t) ==
    /\ mode \in LimiterModes
    /\ rl_pc[t] = "tua_lock"
    /\ rl_lock = 0
    /\ rl_now' = [rl_now EXCEPT ![t] = now]
    /\ rl_wait' = [rl_wait EXCEPT ![t] =
                      IF rl_calls = <<>>
                      THEN [kind |-> "ValueError", v |-> 0]
                      ELSE [kind |-> "value", v |-> period - (now - Min(rl_calls)) + 1]]
    /\ rl_pc' = [rl_pc EXCEPT ![t] = "idle"]
    /\ rl_last' = NoDecision
    /\ m_last' = NoOutput
    /\ UNCHANGED <<mode, tvars, m_pc, m_msg, m_starts, svars, cvars, filevars, now, cachevars, pvars, rl_calls, rl_lock, rl_op, rl_ret, rl_adm>>

\* a second passes
RLTick ==
    /\ mode \in LimiterModes
    /\ now < MaxTime
    /\ now' = now + 1
    /\ rl_last' = NoDecision
    /\ m_last' = NoOutput
    /\ UNCHANGED <<mode, tvars, m_pc, m_msg, m_starts, svars, cvars, filevars, cachevars, pvars, rl_calls, rl_lock, rl_pc, rl_op, rl_now, rl_ret,
                   rl_wait, rl_adm>>

RLCanProceed(t) == RLCall(t, "can_proceed")
RLTimeUntilAvailable(t) == RLCall(t, "time_until_available")

RLStep(t) ==
    \/ RLCanProceed(t)
    \/ RLTimeUntilAvailable(t)
    \/ CpFilter(t)
    \/ CpDecide(t)
    \/ TuaCompute(t)

NextLimiter == (\E t \in RLThreads : RLStep(t)) \/ RLTick

\* any number of threads
SpecLimiter == InitLimiter /\ [][NextLimiter]_vars

NextLimiterSeq == RLStep(1) \/ RLTick

\* one caller: consecutive calls
SpecLimiterSeq == InitLimiter /\ [][NextLimiterSeq]_vars

-----------------------------------------------------------------------------
(* The pipelines. A step runs the code up to and including the next handler *)
(* invocation (Crew.kickoff), whose outcome is a text or an exception.      *)

\* the call returned text / an exception left the function
Returned(text) == [kind |-> "returned", text |-> text]
Raised(e) == [kind |-> "raised", text |-> e]

\* str(e) of the error of a failed file write
E_io == <<"P","e","r","m","i","s","s","i","o","n"," ","d","e","n","i","e","d">>

\* str(e) of the exception a handler raises
E_conn == <<"C","o","n","n","e","c","t","i","o","n"," ","e","r","r","o","r">>

\* the queries the pipelines are called with
OptQueries == {Q_Trending, Q_trending_sp, Q_StarWarsLike}
FilmQueries == {Q_Trending, Q_about, Q_quem}

\* what a handler other than the planner returns in process_optimized_query
OptTexts == {<<>>, <<"o","k">>}

\* what a specialist returns in process_film_buff_query: "", 49 characters
\* between two blanks, 50 characters, 51 characters
FilmTexts == {<<>>, <<" ">> \o Rep("x", 49) \o <<" ">>, Rep("x", 50), Rep("x", 51)}

\* the minimum length of a result: len(specialist_result.strip()) < 50
MIN_LEN == 50

----------------------------------------------------------------------------
(* Hierarchical_crew.classify_query_intent *)

trending_patterns ==
    {<<"e","m"," ","a","l","t","a">>,
     <<"t","e","n","d","ê","n","c","i","a">>,
     <<"t","r","e","n","d","i","n","g">>,
     <<"p","o","p","u","l","a","r">>,
     <<"m","e","l","h","o","r","e","s"," ","f","i","l","m","e","s">>,
     <<"n","o","v","i","d","a","d","e","s">>}
search_patterns ==
    {<<"e","n","c","o","n","t","r","e">>,
     <<"b","u","s","q","u","e">>,
     <<"p","r","o","c","u","r","e">>,
     <<"p","e","s","q","u","i","s","e">>,
     <<"l","i","s","t","a"," ","d","e">>}
detail_patterns ==
    {<<"d","e","t","a","l","h","e","s">>,
     <<"i","n","f","o","r","m","a","ç","õ","e","s">>,
     <<"s","o","b","r","e"," ","o"," ","f","i","l","m","e">>,
     <<"s","o","b","r","e"," ","a"," ","s","é","r","i","e">>,
     <<"s","i","n","o","p","s","e">>,
     <<"e","l","e","n","c","o">>,
     <<"q","u","a","n","d","o"," ","f","o","i"," ","l","a","n","ç","a","d","o">>}
recommendation_patterns ==
    {<<"r","e","c","o","m","e","n","d","e">>,
     <<"s","i","m","i","l","a","r">>,
     <<"p","a","r","e","c","i","d","o">>,
     <<"c","o","m","o">>,
     <<"d","o"," ","m","e","s","m","o"," ","e","s","t","i","l","o">>,
     <<"d","o"," ","m","e","s","m","o"," ","g","ê","n","e","r","o">>}
person_patterns ==
    {<<"a","t","o","r">>,
     <<"a","t","r","i","z">>,
     <<"d","i","r","e","t","o","r">>,
     <<"q","u","e","m">>,
     <<"p","e","r","s","o","n","a","g","e","m">>,
     <<"a","r","t","i","s","t","a">>,
     <<"e","l","e","n","c","o">>}
specific_titles ==
    {<<"s","t","a","r"," ","w","a","r","s">>,
     <<"v","i","n","g","a","d","o","r","e","s">>,
     <<"h","a","r","r","y"," ","p","o","t","t","e","r">>,
     <<"s","e","n","h","o","r"," ","d","o","s"," ","a","n","é","i","s">>,
     <<"g","a","m","e"," ","o","f"," ","t","h","r","o","n","e","s">>}

Intent(type, agents) == [type |-> type, agents |-> agents]

\* if query_type == "complex" and not required_agents: research_agent
WithDefaultAgent(intent) ==
    IF intent.type = "complex" /\ intent.agents = <<>>
    THEN Intent("complex", <<"research_agent">>)
    ELSE intent

\* the patterns are looked up in the query as given
classify_query_intent_nolower(query) ==
    LET query_lower == query
        specific_title == ContainsAny(query_lower, specific_titles)
        recommend == ContainsAny(query_lower, recommendation_patterns)
    IN IF ContainsAny(query_lower, trending_patterns)
       THEN Intent("trending", <<>>)
       ELSE IF ContainsAny(query_lower, search_patterns) /\ ~specific_title
       THEN Intent("search", <<>>)
       ELSE WithDefaultAgent(
            IF ContainsAny(query_lower, detail_patterns) \/ specific_title
            THEN Intent("complex", IF recommend
                                   THEN <<"details_agent", "recommendation_agent">>
                                   ELSE <<"details_agent">>)
            ELSE IF recommend
            THEN Intent("complex", <<"recommendation_agent">>)
            ELSE IF ContainsAny(query_lower, person_patterns)
            THEN Intent("complex", <<"people_agent">>)
            ELSE Intent("complex", <<"research_agent">>))

\* a specific title does not select the details branch
classify_query_intent_notitle(query) ==
    LET query_lower == Lower(query)
        specific_title == ContainsAny(query_lower, specific_titles)
        recommend == ContainsAny(query_lower, recommendation_patterns)
    IN IF ContainsAny(query_lower, trending_patterns)
       THEN Intent("trending", <<>>)
       ELSE IF ContainsAny(query_lower, search_patterns) /\ ~specific_title
       THEN Intent("search", <<>>)
       ELSE WithDefaultAgent(
            IF ContainsAny(query_lower, detail_patterns)
            THEN Intent("complex", IF recommend
                                   THEN <<"details_agent", "recommendation_agent">>
                                   ELSE <<"details_agent">>)
            ELSE IF recommend
            THEN Intent("complex", <<"recommendation_agent">>)
            ELSE IF ContainsAny(query_lower, person_patterns)
            THEN Intent("complex", <<"people_agent">>)
            ELSE Intent("complex", <<"research_agent">>))

\* the last branch and the safety net add no agent
classify_query_intent_nofallback(query) ==
    LET query_lower == Lower(query)
        specific_title == ContainsAny(query_lower, specific_titles)
        recommend == ContainsAny(query_lower, recommendation_patterns)
    IN IF ContainsAny(query_lower, trending_patterns)
       THEN Intent("trending", <<>>)
       ELSE IF ContainsAny(query_lower, search_patterns) /\ ~specific_title
       THEN Intent("search", <<>>)
       ELSE IF ContainsAny(query_lower, detail_patterns) \/ specific_title
            THEN Intent("complex", IF recommend
                                   THEN <<"details_agent", "recommendation_agent">>
                                   ELSE <<"details_agent">>)
            ELSE IF recommend
            THEN Intent("complex", <<"recommendation_agent">>)
            ELSE IF ContainsAny(query_lower, person_patterns)
            THEN Intent("complex", <<"people_agent">>)
            ELSE Intent("complex", <<>>)

classify_query_intent(query) ==
    LET query_lower == Lower(query)
        specific_title == ContainsAny(query_lower, specific_titles)
        recommend == ContainsAny(query_lower, recommendation_patterns)
    IN IF ContainsAny(query_lower, trending_patterns)
       THEN Intent("trending", <<>>)
       ELSE IF ContainsAny(query_lower, search_patterns) /\ ~specific_title
       THEN Intent("search", <<>>)
       ELSE WithDefaultAgent(
            IF ContainsAny(query_lower, detail_patterns) \/ specific_title
            THEN Intent("complex", IF recommend
                                   THEN <<"details_agent", "recommendation_agent">>
                                   ELSE <<"details_agent">>)
            ELSE IF recommend
            THEN Intent("complex", <<"recommendation_agent">>)
            ELSE IF ContainsAny(query_lower, person_patterns)
            THEN Intent("complex", <<"people_agent">>)
            ELSE Intent("complex", <<"research_agent">>))

\* the words the classified queries are put together from: at most one of
\* each group, in mixed letter case ("elenco" is in two groups)
F_TRENDING == <<"T","R","E","N","D","I","N","G">>
F_EmAlta == <<"E","m"," ","A","l","t","a">>
F_Busque == <<"B","u","s","q","u","e">>
F_sinopse == <<"s","i","n","o","p","s","e">>
F_ELENCO == <<"E","L","E","N","C","O">>
F_similar == <<"S","i","m","i","l","a","r">>
F_Quem == <<"Q","u","e","m">>
F_StarWars == <<"S","t","a","r"," ","W","a","r","s">>
F_filme == <<"u","m"," ","f","i","l","m","e">>

ClassifyQueries ==
    {F_filme \o <<" ">> \o se \o <<" ">> \o de \o <<" ">> \o re \o <<" ">>
        \o pe \o <<" ">> \o ti \o <<" ">> \o tr :
        se \in {<<>>, F_Busque}, de \in {<<>>, F_sinopse, F_ELENCO},
        re \in {<<>>, F_similar}, pe \in {<<>>, F_Quem},
        ti \in {<<>>, F_StarWars}, tr \in {<<>>, F_TRENDING, F_EmAlta}}

InitClassify ==
    /\ mode = "classify" /\ now = 0
    /\ IdleHCache /\ IdleBCache /\ IdleLimiter /\ IdlePipe /\ IdleClassify
    /\ IdleStores /\ IdleMessages /\ IdleClient

\* query_type, required_agents = classify_query_intent(q)
CClassify(q) ==
    /\ mode = "classify"
    /\ c_pc' = "called"
    /\ c_query' = q
    /\ c_result' = classify_query_intent(q)
    /\ c_prev' = IF c_pc = "called" /\ c_query = q THEN Some(c_result) ELSE None
    /\ UNCHANGED <<mode, tvars, mvars, svars, now, cachevars, filevars, rlvars, pvars>>

CClassifyAny == \E q \in ClassifyQueries : CClassify(q)

NextClassify == CClassifyAny

SpecClassify == InitClassify /\ [][NextClassify]_vars

----------------------------------------------------------------------------
(* Hierarchical_crew.process_optimized_query: from the delegation plan to   *)
(* the specialist tasks                                                     *)

H_research == <<"R","E","S","E","A","R","C","H"," ","A","G","E","N","T",":">>
H_details == <<"D","E","T","A","I","L","S"," ","A","G","E","N","T",":">>
H_recommendation == <<"R","E","C","O","M","M","E","N","D","A","T","I","O","N"," ","A","G","E","N","T",":">>
H_people == <<"P","E","O","P","L","E"," ","A","G","E","N","T",":">>

\* the section headers that end a section
Headers == {H_research, H_details, H_recommendation, H_people}

\* agent_name.replace('_agent', '').upper() + " AGENT:"
AgentHeader(agent_name) ==
    CASE agent_name = "research_agent" -> H_research
      [] agent_name = "details_agent" -> H_details
      [] agent_name = "recommendation_agent" -> H_recommendation
      [] agent_name = "people_agent" -> H_people

\* pat matches s at position i, letter case ignored (re.IGNORECASE)
MatchAt(s, pat, i) ==
    /\ i + Len(pat) - 1 <= Len(s)
    /\ \A j \in 1..Len(pat) : LowerChar(s[i + j - 1]) = LowerChar(pat[j])

\* $ matches at the end of the text and before a final newline
EndAt(s, i) == i = Len(s) + 1 \/ (i = Len(s) /\ s[i] = "\n")

Least(S) == CHOOSE x \in S : \A y \in S : x <= y

\* pattern.search(delegation_plan) and match.group(1).strip(): the text from
\* the first occurrence of the agent's header to the nearest header or end
ExtractInstructions(plan, agent_name) ==
    LET header == AgentHeader(agent_name)
        starts == {i \in 1..Len(plan) : MatchAt(plan, header, i)}
    IN IF starts = {} THEN None
       ELSE LET body == Least(starts) + Len(header)
                stops == {i \in body..(Len(plan) + 1) :
                             \/ \E h \in Headers : MatchAt(plan, h, i)
                             \/ EndAt(plan, i)}
            IN Some(Strip(SubSeq(plan, body, Least(stops) - 1)))

max_instructions_length == 300

Ellipsis == <<".",".",".">>

\* the Task create_optimized_tasks builds: its agent and the instructions
\* placed in its description
create_optimized_tasks(agent_name, query, instructions) ==
    [agent |-> agent_name,
     query |-> query,
     instructions |->
        IF Len(instructions) > max_instructions_length
        THEN SubSeq(instructions, 1, max_instructions_length) \o Ellipsis
        ELSE instructions]

DefaultHead == <<"F","o","r","n","e","ç","a"," ","i","n","f","o","r","m","a","ç","õ","e","s"," ","s","o","b","r","e"," ","'">>
DefaultTail == <<"'">>

\* f"Forneça informações sobre '{query}'"
default_instruction(query) == DefaultHead \o query \o DefaultTail

RECURSIVE ExtractedTasks(_, _, _)
\* the loop over required_agents: one task per agent whose section is found
ExtractedTasks(plan, agents, query) ==
    IF agents = <<>> THEN <<>>
    ELSE LET match == ExtractInstructions(plan, Head(agents))
             rest == ExtractedTasks(plan, Tail(agents), query)
         IN IF match.some
            THEN <<create_optimized_tasks(Head(agents), query, match.val)>> \o rest
            ELSE rest

\* the fallback loop: every required agent gets the default instruction
FallbackTasks(agents, query) ==
    [i \in 1..Len(agents) |->
        create_optimized_tasks(agents[i], query, default_instruction(query))]

\* tasks, as the specialist crew receives them
BuildTasks(plan, agents, query) ==
    LET tasks == ExtractedTasks(plan, agents, query)
    IN IF tasks = <<>> THEN FallbackTasks(agents, query) ELSE tasks

\* delegation plans the manager returns: no section; a section in mixed case
\* ended by another header; a section for the second agent only; a section
\* longer than the instruction limit, ended by a final newline
P_none == <<"P","L","A","N","O",":"," ","r","e","s","p","o","n","d","e","r">>
P_details == <<"D","e","t","a","i","l","s"," ","A","g","e","n","t",":"," ","c","a","s","t","\n"," ","R","e","s","e","a","r","c","h"," ","a","g","e","n","t",":"," ","x">>
P_recommendation == <<"R","E","C","O","M","M","E","N","D","A","T","I","O","N"," ","A","G","E","N","T",":"," ","s","i","m","i","l","a","r">>
P_long == H_details \o <<" ">> \o Rep("i", max_instructions_length + 1) \o <<"\n">>
Plans == {P_none, P_details, P_recommendation, P_long}

\* what the kickoff of a stage can return
StageTexts(stage) == IF stage = "plan" THEN Plans ELSE OptTexts

----------------------------------------------------------------------------
(* Hierarchical_crew.process_optimized_query *)

OptErrHead == <<"#"," ","E","r","r","o"," ","a","o"," ","p","r","o","c","e","s","s","a","r"," ","c","o","n","s","u","l","t","a","\n","\n","O","c","o","r","r","e","u"," ","u","m"," ","p","r","o","b","l","e","m","a"," ","a","o"," ","p","r","o","c","e","s","s","a","r",":"," ","\"">>
OptErrMid == <<"\"","\n","E","r","r","o",":"," ">>
OptErrTail == <<"\n","\n","P","o","r"," ","f","a","v","o","r",","," ","t","e","n","t","e"," ","r","e","f","o","r","m","u","l","a","r"," ","s","u","a"," ","p","e","r","g","u","n","t","a",".","\n">>

\* the text the except block returns
OptErrorText(query, e) == OptErrHead \o query \o OptErrMid \o e \o OptErrTail

\* the handler invocations inside the try block
OptTryStages_nosynthesis == {"simple", "plan", "specialists"}

OptTryStages == {"simple", "plan", "specialists", "synthesis"}

\* every kickoff result is written to the cache
WritesCache_all(stage) == TRUE

\* the kickoffs followed by query_cache.set(query, result)
WritesCache(stage) == stage \in {"simple", "synthesis"}

\* the agent a kickoff runs
OptAgent(stage) == IF stage = "specialists" THEN "specialists" ELSE "manager_agent"

InitOpt ==
    /\ mode = "opt" /\ now = 0
    /\ IdleHCache /\ IdleBCache /\ IdleLimiter /\ IdlePipe /\ IdleClassify
    /\ IdleStores /\ IdleMessages /\ IdleClient

\* process_optimized_query(q) up to the first kickoff
OStart(q) ==
    /\ mode = "opt"
    /\ p_pc \in {"idle", "done"}
    /\ LET cached_result == QueryCache_get(cache, q)
           intent == classify_query_intent(q)
       IN /\ p_look' = cached_result
          /\ IF Truthy(cached_result)
             THEN /\ p_ret' = Returned(cached_result.val)
                  /\ p_pc' = "done"
                  /\ p_route' = NoRoute
             ELSE /\ p_ret' = NoRet
                  /\ p_route' = intent
                  /\ p_pc' = IF intent.type \in {"simple", "trending", "search"}
                             THEN "simple" ELSE "plan"
    /\ p_query' = q
    /\ p_first' = <<>>
    /\ p_improved' = <<>>
    /\ p_tasks' = <<>>
    /\ p_stages' = <<>>
    /\ p_err' = None
    /\ p_snap' = <<cache, disk, bcache>>
    /\ lastSave' = NoSave
    /\ UNCHANGED <<mode, tvars, mvars, svars, cvars, lastLoad, now, cachevars, rlvars>>

\* the kickoff at p_pc returns text
OKickOk(stage, text, outcome) ==
    /\ mode = "opt"
    /\ p_pc = stage
    /\ p_stages' = Append(p_stages, <<stage, OptAgent(stage)>>)
    /\ IF WritesCache(stage)
       THEN /\ cache' = QueryCache_set(cache, p_query, text, now)
            /\ disk' = save_cache(cache', disk, outcome)
            /\ lastSave' = Saved(outcome)
       ELSE /\ outcome = "written"
            /\ lastSave' = NoSave
            /\ UNCHANGED <<cache, disk>>
    /\ CASE stage = "plan" ->
                /\ p_tasks' = BuildTasks(text, p_route.agents, p_query)
                /\ p_pc' = "specialists"
                /\ UNCHANGED <<p_ret, p_err>>
         [] stage = "specialists" ->
                /\ p_pc' = "synthesis"
                /\ UNCHANGED <<p_ret, p_tasks, p_err>>
         [] OTHER ->
                /\ p_pc' = "done"
                /\ p_tasks' = <<>>
                /\ IF WritesCache(stage) /\ SaveRaises(outcome)
                   THEN /\ p_err' = Some(E_io)
                        /\ p_ret' = Returned(OptErrorText(p_query, E_io))
                   ELSE /\ p_ret' = Returned(text)
                        /\ UNCHANGED p_err
    /\ UNCHANGED <<mode, tvars, mvars, svars, cvars, lastLoad, now, stored, lastGet, bcache, bhist, blastGet, rlvars,
                   p_query, p_route, p_first, p_improved, p_look, p_snap>>

\* the kickoff at p_pc raises e
OKickRaise(stage, e) ==
    /\ mode = "opt"
    /\ p_pc = stage
    /\ p_stages' = Append(p_stages, <<stage, OptAgent(stage)>>)
    /\ p_err' = Some(e)
    /\ p_pc' = "done"
    /\ p_ret' = IF stage \in OptTryStages
                THEN Returned(OptErrorText(p_query, e))
                ELSE Raised(e)
    /\ p_tasks' = <<>>
    /\ lastSave' = NoSave
    /\ UNCHANGED <<mode, tvars, mvars, svars, cvars, lastLoad, now, cachevars, rlvars,
                   p_query, p_route, p_first, p_improved, p_look, p_snap>>

OKick(stage) ==
    \/ \E text \in StageTexts(stage), o \in SaveOutcomes : OKickOk(stage, text, o)
    \/ OKickRaise(stage, E_conn)

OStartAny == \E q \in OptQueries : OStart(q)
OSimple == OKick("simple")
OPlan == OKick("plan")
OSpecialists == OKick("specialists")
OSynthesis == OKick("synthesis")

\* a day passes
OTick ==
    /\ mode = "opt"
    /\ now < MaxTime
    /\ now' = now + 1
    /\ lastSave' = NoSave
    /\ UNCHANGED <<mode, tvars, mvars, svars, cvars, lastLoad, cachevars, rlvars, pvars>>

NextOpt == OStartAny \/ OSimple \/ OPlan \/ OSpecialists \/ OSynthesis \/ OTick

----------------------------------------------------------------------------
(* Crew.process_film_buff_query (and its copy in Tests/Uptadet_crew.py) *)

information_terms ==
    {<<"i","n","f","o","r","m","a","t","i","o","n","_","a","g","e","n","t">>,
     <<"i","n","f","o","r","m","a","t","i","o","n"," ","a","g","e","n","t">>,
     <<"m","o","v","i","e"," ","i","n","f","o">>,
     <<"f","i","l","m"," ","i","n","f","o","r","m","a","t","i","o","n">>}
trends_terms ==
    {<<"t","r","e","n","d","s","_","a","g","e","n","t">>,
     <<"t","r","e","n","d","s"," ","a","g","e","n","t">>,
     <<"t","r","e","n","d","i","n","g">>}
recommendation_terms ==
    {<<"r","e","c","o","m","m","e","n","d","a","t","i","o","n","_","a","g","e","n","t">>,
     <<"r","e","c","o","m","m","e","n","d","a","t","i","o","n"," ","a","g","e","n","t">>,
     <<"r","e","c","o","m","m","e","n","d","a","t","i","o","n","s">>}
context_terms ==
    {<<"i","n","f","o","r","m","a","t","i","o","n">>,
     <<"d","e","t","a","i","l","s">>,
     <<"a","b","o","u","t">>}

\* what the manager's analysis may say
A_info == <<"I","n","f","o","r","m","a","t","i","o","n"," ","A","g","e","n","t">>
A_trend == <<"T","R","E","N","D","I","N","G"," ","n","o","w">>
A_rec == <<"R","e","c","o","m","m","e","n","d","a","t","i","o","n","s">>
A_multi == <<"t","r","e","n","d","s","_","a","g","e","n","t",","," ","i","n","f","o","r","m","a","t","i","o","n","_","a","g","e","n","t">>
A_unclear == <<"u","n","c","l","e","a","r">>
A_trend_rec == <<"t","r","e","n","d","i","n","g"," ","r","e","c","o","m","m","e","n","d","a","t","i","o","n","s">>
Analyses == {A_info, A_trend, A_rec, A_multi, A_trend_rec, A_unclear}

\* the trends branch tested before the information branch
Route_trends_first(manager_analysis, query) ==
    LET analysis == Lower(manager_analysis)
    IN IF ContainsAny(analysis, trends_terms) THEN "trends_agent"
       ELSE IF ContainsAny(analysis, information_terms) THEN "information_agent"
       ELSE IF ContainsAny(analysis, recommendation_terms) THEN "recommendation_agent"
       ELSE IF ContainsAny(Lower(query), context_terms) THEN "information_agent"
       ELSE "recommendation_agent"

\* target_agent
Route(manager_analysis, query) ==
    LET analysis == Lower(manager_analysis)
    IN IF ContainsAny(analysis, information_terms) THEN "information_agent"
       ELSE IF ContainsAny(analysis, trends_terms) THEN "trends_agent"
       ELSE IF ContainsAny(analysis, recommendation_terms) THEN "recommendation_agent"
       ELSE IF ContainsAny(Lower(query), context_terms) THEN "information_agent"
       ELSE "recommendation_agent"

\* the agents the second attempt is written for
RetryAgents == {"trends_agent", "information_agent"}

FilmErrHead == <<"#"," ","S","o","r","r","y",","," ","a","n"," ","e","r","r","o","r"," ","o","c","c","u","r","r","e","d"," ","p","r","o","c","e","s","s","i","n","g"," ","y","o","u","r"," ","q","u","e","r","y","\n","\n","C","o","u","l","d"," ","n","o","t"," ","p","r","o","c","e","s","s",":"," ","\"">>
FilmErrMid == <<"\"","\n","\n","E","r","r","o","r",":"," ">>
FilmErrTail == <<"\n","\n","P","l","e","a","s","e"," ","t","r","y",":","\n","1","."," ","R","e","p","h","r","a","s","i","n","g"," ","y","o","u","r"," ","q","u","e","s","t","i","o","n","\n","2","."," ","B","e","i","n","g"," ","m","o","r","e"," ","s","p","e","c","i","f","i","c"," ","a","b","o","u","t"," ","m","o","v","i","e"," ","o","r"," ","T","V"," ","s","h","o","w"," ","t","i","t","l","e","s","\n","3","."," ","U","s","i","n","g"," ","s","i","m","p","l","e","r"," ","q","u","e","r","i","e","s","\n","\n","T","h","a","n","k"," ","y","o","u"," ","f","o","r"," ","y","o","u","r"," ","u","n","d","e","r","s","t","a","n","d","i","n","g","!","\n">>

FilmErrorText(query, e) == FilmErrHead \o query \o FilmErrMid \o e \o FilmErrTail

FilmTryStages == {"manager", "specialist", "retry"}

InitFilm ==
    /\ mode = "film" /\ now = 0
    /\ IdleHCache /\ IdleBCache /\ IdleLimiter /\ IdlePipe /\ IdleClassify
    /\ IdleStores /\ IdleMessages /\ IdleClient

\* process_film_buff_query(q) up to the manager's kickoff
FStart(q) ==
    /\ mode = "film"
    /\ p_pc \in {"idle", "done"}
    /\ LET cached_result == BoundedCache_get(bcache, q)
       IN /\ p_look' = cached_result
          /\ IF Truthy(cached_result)
             THEN /\ p_ret' = Returned(cached_result.val)
                  /\ p_pc' = "done"
             ELSE /\ p_ret' = NoRet
                  /\ p_pc' = "manager"
    /\ p_query' = q
    /\ p_route' = NoRoute
    /\ p_first' = <<>>
    /\ p_improved' = <<>>
    /\ p_tasks' = <<>>
    /\ p_stages' = <<>>
    /\ p_err' = None
    /\ p_snap' = <<cache, disk, bcache>>
    /\ UNCHANGED <<mode, tvars, mvars, svars, cvars, filevars, now, cachevars, rlvars>>

\* a second attempt whatever the length of the first result
NeedsRetry_always(text, agent) == agent \in RetryAgents

\* len(specialist_result.strip()) < 50 and a retry branch exists for the agent
NeedsRetry(text, agent) == Len(Strip(text)) < MIN_LEN /\ agent \in RetryAgents

\* if len(improved_result.strip()) > 50: specialist_result = improved_result
Adopt(improved, first) ==
    IF Len(Strip(improved)) > MIN_LEN THEN improved ELSE first

\* return specialist_result without query_cache.set
FStore_skip(text) ==
    /\ bcache' = bcache
    /\ p_ret' = Returned(text)
    /\ p_pc' = "done"

\* query_cache.set(query, specialist_result); return specialist_result
FStore(text) ==
    /\ bcache' = BoundedCache_set(bcache, p_query, text)
    /\ p_ret' = Returned(text)
    /\ p_pc' = "done"

\* a kickoff raises e: the except block
FRaise(stage, agent, e) ==
    /\ mode = "film"
    /\ p_pc = stage
    /\ p_stages' = Append(p_stages, <<stage, agent>>)
    /\ p_err' = Some(e)
    /\ p_pc' = "done"
    /\ p_ret' = IF stage \in FilmTryStages
                THEN Returned(FilmErrorText(p_query, e))
                ELSE Raised(e)
    /\ UNCHANGED <<mode, tvars, mvars, svars, cvars, filevars, now, cachevars, rlvars,
                   p_query, p_route, p_first, p_improved, p_tasks, p_look, p_snap>>

\* manager_analysis = str(manager_crew.kickoff()); target_agent = ...
FManagerOk(analysis) ==
    /\ mode = "film"
    /\ p_pc = "manager"
    /\ p_stages' = Append(p_stages, <<"manager", "manager_agent">>)
    /\ p_route' = [type |-> "film", agents |-> <<Route(analysis, p_query)>>,
                    analysis |-> analysis]
    /\ p_pc' = "specialist"
    /\ UNCHANGED <<mode, tvars, mvars, svars, cvars, filevars, now, cachevars, rlvars,
                   p_query, p_first, p_improved, p_tasks, p_ret, p_look, p_snap, p_err>>

\* specialist_result = str(specialist_crew.kickoff()); the length check
FSpecialistOk(text) ==
    /\ mode = "film"
    /\ p_pc = "specialist"
    /\ p_stages' = Append(p_stages, <<"specialist", p_route.agents[1]>>)
    /\ p_first' = text
    /\ IF NeedsRetry(text, p_route.agents[1])
       THEN /\ p_pc' = "retry"
            /\ UNCHANGED <<bcache, p_ret>>
       ELSE FStore(text)
    /\ UNCHANGED <<mode, tvars, mvars, svars, cvars, filevars, now, cache, disk, stored, lastGet, bhist, blastGet, rlvars,
                   p_query, p_route, p_improved, p_tasks, p_look, p_snap, p_err>>

\* improved_result = str(retry_crew.kickoff()); if len(...) > 50: adopt it
FRetryOk(improved) ==
    /\ mode = "film"
    /\ p_pc = "retry"
    /\ p_stages' = Append(p_stages, <<"retry", p_route.agents[1]>>)
    /\ p_improved' = improved
    /\ FStore(Adopt(improved, p_first))
    /\ UNCHANGED <<mode, tvars, mvars, svars, cvars, filevars, now, cache, disk, stored, lastGet, bhist, blastGet, rlvars,
                   p_query, p_route, p_first, p_tasks, p_look, p_snap, p_err>>

FStartAny == \E q \in FilmQueries : FStart(q)
FManager == (\E a \in Analyses : FManagerOk(a)) \/ FRaise("manager", "manager_agent", E_conn)
FSpecialist ==
    \/ \E text \in FilmTexts : FSpecialistOk(text)
    \/ p_pc = "specialist" /\ FRaise("specialist", p_route.agents[1], E_conn)
FRetry ==
    \/ \E text \in FilmTexts : FRetryOk(text)
    \/ p_pc = "retry" /\ FRaise("retry", p_route.agents[1], E_conn)

NextFilm == FStartAny \/ FManager \/ FSpecialist \/ FRetry

\* both pipelines
SpecPipes == (InitOpt \/ InitFilm) /\ [][NextOpt \/ NextFilm]_vars

SpecFilm == InitFilm /\ [][NextFilm]_vars

-----------------------------------------------------------------------------
(* Gradio.process_message: validation, admission, the pipeline call and    *)
(* the assistant message built from its outcome. The pipeline call is one  *)
(* step: process_optimized_query from its cache lookup to its return.      *)

MAX_TOKENS == 50

\* a code point str.encode() rejects (a lone surrogate)
Surrogate == "U+D800"

Q_blank == <<" ">>
Q_lone == <<"a", Surrogate>>

\* the messages sent to the interface
Messages == {Q_c, Q_blank, Q_lone}

\* what the tokenizer may count for a message
TokenCounts == {MAX_TOKENS, MAX_TOKENS + 1}

T_rated == <<"s","e","e"," ","\"","D","u","n","e","\""," ","(","8",".","1","/","1","0",")">>

\* what the handlers may return
MessageTexts == {T_rated}

E_429 == <<"4","2","9"," ","T","o","o"," ","M","a","n","y"," ","R","e","q","u","e","s","t","s">>
E_timeout == <<"R","e","a","d"," ","T","i","m","e","o","u","t">>
E_auth == <<"I","n","v","a","l","i","d"," ","A","P","I"," ","k","e","y">>
E_unicode == <<"'","u","t","f","-","8","'"," ","c","o","d","e","c"," ","c","a","n","'","t"," ","e","n","c","o","d","e"," ","c","h","a","r","a","c","t","e","r">>

\* what a failing handler may raise
HandlerErrors == {E_429, E_timeout, E_auth}

\* validate_input: the message is not blank and within the token limit
validate_input(message, token_count) ==
    /\ Strip(message) # <<>>
    /\ token_count <= MAX_TOKENS

\* text.encode() succeeds
Encodable(text) == \A i \in 1..Len(text) : text[i] # Surrogate

K_429 == <<"4","2","9">>
K_too_many == <<"t","o","o"," ","m","a","n","y"," ","r","e","q","u","e","s","t","s">>
K_connection == <<"c","o","n","n","e","c","t","i","o","n">>
K_timeout == <<"t","i","m","e","o","u","t">>
K_authentication == <<"a","u","t","h","e","n","t","i","c","a","t","i","o","n">>
K_api_key == <<"a","p","i"," ","k","e","y">>

Msg429 == <<"T","h","e"," ","m","o","v","i","e"," ","d","a","t","a","b","a","s","e"," ","A","P","I"," ","i","s"," ","c","u","r","r","e","n","t","l","y"," ","r","a","t","e"," ","l","i","m","i","t","e","d","."," ","P","l","e","a","s","e"," ","t","r","y"," ","a","g","a","i","n"," ","i","n"," ","a"," ","m","i","n","u","t","e",".">>
MsgConnection == <<"C","o","u","l","d"," ","n","o","t"," ","c","o","n","n","e","c","t"," ","t","o"," ","t","h","e"," ","m","o","v","i","e"," ","d","a","t","a","b","a","s","e","."," ","P","l","e","a","s","e"," ","c","h","e","c","k"," ","y","o","u","r"," ","i","n","t","e","r","n","e","t"," ","c","o","n","n","e","c","t","i","o","n"," ","a","n","d"," ","t","r","y"," ","a","g","a","i","n",".">>
MsgAuth == <<"A","P","I"," ","a","u","t","h","e","n","t","i","c","a","t","i","o","n"," ","e","r","r","o","r","."," ","P","l","e","a","s","e"," ","c","o","n","t","a","c","t"," ","t","h","e"," ","a","d","m","i","n","i","s","t","r","a","t","o","r",".">>
MsgOtherHead == <<"A","n"," ","e","r","r","o","r"," ","o","c","c","u","r","r","e","d"," ","w","h","i","l","e"," ","p","r","o","c","e","s","s","i","n","g"," ","y","o","u","r"," ","r","e","q","u","e","s","t",":"," ">>
MsgOtherTail == <<"."," ","P","l","e","a","s","e"," ","t","r","y"," ","r","e","p","h","r","a","s","i","n","g"," ","y","o","u","r"," ","q","u","e","s","t","i","o","n",".">>

\* handle_api_error: the message for the category str(error) falls in
handle_api_error(error) ==
    LET error_str == Lower(error)
    IN IF Contains(error_str, K_429) \/ Contains(error_str, K_too_many)
       THEN Msg429
       ELSE IF Contains(error_str, K_connection) \/ Contains(error_str, K_timeout)
       THEN MsgConnection
       ELSE IF Contains(error_str, K_authentication) \/ Contains(error_str, K_api_key)
       THEN MsgAuth
       ELSE MsgOtherHead \o error \o MsgOtherTail

Digits == {"0","1","2","3","4","5","6","7","8","9"}
Bold == <<"*","*">>

\* the text from position i on
From(text, i) == SubSeq(text, i, Len(text))

\* re.sub(r"\"([^\"]+)\"", r"**\1**", text): a match opens at a quote whose
\* next quote is not adjacent
RECURSIVE BoldTitles(_)
BoldTitles(text) ==
    LET Quotes == {i \in 1..Len(text) : text[i] = "\""}
        Close(i) == Least({j \in Quotes : j > i})
        Opens == {i \in Quotes : (\E j \in Quotes : j > i) /\ Close(i) > i + 1}
    IN IF Opens = {} THEN text
       ELSE LET i == Least(Opens)
            IN SubSeq(text, 1, i - 1)
                \o Bold \o SubSeq(text, i + 1, Close(i) - 1) \o Bold
                \o BoldTitles(From(text, Close(i) + 1))

\* (\d\.\d\/10) matches at position i of text
RatingAt(text, i) ==
    /\ i + 5 <= Len(text)
    /\ text[i] \in Digits /\ text[i + 1] = "." /\ text[i + 2] \in Digits
    /\ text[i + 3] = "/" /\ text[i + 4] = "1" /\ text[i + 5] = "0"

\* re.sub(r"(\d\.\d\/10)", r"**\1**", text)
RECURSIVE BoldRatings(_)
BoldRatings(text) ==
    LET Matches == {i \in 1..Len(text) : RatingAt(text, i)}
    IN IF Matches = {} THEN text
       ELSE LET i == Least(Matches)
            IN SubSeq(text, 1, i - 1)
                \o Bold \o SubSeq(text, i, i + 5) \o Bold
                \o BoldRatings(From(text, i + 6))

\* str.replace(old, new)
RECURSIVE Replace(_, _, _)
Replace(text, old, new) ==
    LET Matches == {i \in 1..(Len(text) - Len(old) + 1) :
                        SubSeq(text, i, i + Len(old) - 1) = old}
    IN IF Matches = {} THEN text
       ELSE LET i == Least(Matches)
            IN SubSeq(text, 1, i - 1) \o new
                \o Replace(From(text, i + Len(old)), old, new)

TMDbUrl == <<"h","t","t","p","s",":","/","/","w","w","w",".","t","h","e","m","o","v","i","e","d","b",".","o","r","g">>
TMDbLink == <<"[","T","M","D","b","]","(","h","t","t","p","s",":","/","/","w","w","w",".","t","h","e","m","o","v","i","e","d","b",".","o","r","g">>

\* enhance_content: titles and ratings in bold, TMDb links, ")" to ")]"
enhance_content(text) ==
    Replace(Replace(BoldRatings(BoldTitles(text)), TMDbUrl, TMDbLink),
            <<")">>, <<")", "]">>)

\* the prefix of a warning: U+26A0, U+FE0F and a space
Warn == <<"⚠","U+FE0F"," ">>
cache_indicator == <<" ","(","r","e","s","p","o","n","s","e"," ","f","r","o","m"," ","c","a","c","h","e",")">>

\* enhanced_response + cache_indicator, with is_cached as process_message
\* computes it: query_cache.get(message) is not None, after the pipeline call
Shown(response, c, message) ==
    LET is_cached == QueryCache_get(c, message).some
    IN [kind |-> "response",
        text |-> enhance_content(response)
                    \o (IF is_cached THEN cache_indicator ELSE <<>>),
        indicator |-> is_cached, hit |-> FALSE, err |-> None, wait |-> 0]

InitMessage ==
    /\ mode = "message" /\ now = 0
    /\ IdleHCache /\ IdleBCache /\ IdleLimiter /\ IdlePipe /\ IdleClassify
    /\ IdleStores /\ IdleMessages /\ IdleClient

\* process_message(message, history) up to rate_limiter.can_proceed():
\* now = time.time()
MCall(t, message, token_count) ==
    /\ mode = "message"
    /\ m_pc[t] = "idle"
    /\ IF validate_input(message, token_count)
       THEN /\ m_pc' = [m_pc EXCEPT ![t] = "can_proceed"]
            /\ m_msg' = [m_msg EXCEPT ![t] = message]
            /\ m_last' = NoOutput
            /\ rl_op' = [rl_op EXCEPT ![t] = "can_proceed"]
            /\ rl_now' = [rl_now EXCEPT ![t] = now]
            /\ rl_pc' = [rl_pc EXCEPT ![t] = "cp_lock"]
            /\ rl_wait' = [rl_wait EXCEPT ![t] = NoWait]
       ELSE /\ m_last' = [NoOutput EXCEPT !.kind = "invalid"]
            /\ UNCHANGED <<m_pc, m_msg, rl_op, rl_now, rl_pc, rl_wait>>
    /\ rl_last' = NoDecision
    /\ UNCHANGED <<mode, tvars, svars, cvars, filevars, now, cachevars, pvars,
                   rl_calls, rl_lock, rl_ret, rl_adm, m_starts>>

\* can_proceed() has returned: the spinner is yielded, or
\* time_until_available() is called
MAdmission(t) ==
    /\ mode = "message"
    /\ m_pc[t] = "can_proceed"
    /\ rl_pc[t] = "idle"
    /\ IF rl_ret[t]
       THEN /\ m_pc' = [m_pc EXCEPT ![t] = "spinner"]
            /\ UNCHANGED <<rl_op, rl_now, rl_pc>>
       ELSE /\ m_pc' = [m_pc EXCEPT ![t] = "denied"]
            /\ rl_op' = [rl_op EXCEPT ![t] = "time_until_available"]
            /\ rl_now' = [rl_now EXCEPT ![t] = now]
            /\ rl_pc' = [rl_pc EXCEPT ![t] = "cp_lock"]
    /\ m_last' = NoOutput
    /\ rl_last' = NoDecision
    /\ UNCHANGED <<mode, tvars, svars, cvars, filevars, now, cachevars, pvars,
                   rl_calls, rl_lock, rl_ret, rl_wait, rl_adm, m_msg, m_starts>>

\* time_until_available() has returned or raised: the rate-limit message
MDenied(t) ==
    /\ mode = "message"
    /\ m_pc[t] = "denied"
    /\ rl_pc[t] = "idle"
    /\ m_pc' = [m_pc EXCEPT ![t] = "idle"]
    /\ m_msg' = [m_msg EXCEPT ![t] = <<>>]
    /\ m_last' = IF rl_wait[t].kind = "value"
                 THEN [NoOutput EXCEPT !.kind = "rate_limited",
                                       !.wait = rl_wait[t].v]
                 ELSE [NoOutput EXCEPT !.kind = "raised"]
    /\ rl_last' = NoDecision
    /\ UNCHANGED <<mode, tvars, svars, cvars, filevars, now, cachevars, pvars,
                   rl_calls, rl_lock, rl_pc, rl_op, rl_now, rl_ret, rl_wait,
                   rl_adm, m_starts>>

\* the frame of a pipeline call that leaves the cache as it is
PipelineBegins(t) ==
    /\ mode = "message"
    /\ m_pc[t] = "spinner"
    /\ m_pc' = [m_pc EXCEPT ![t] = "idle"]
    /\ m_msg' = [m_msg EXCEPT ![t] = <<>>]
    /\ m_starts' = [m_starts EXCEPT ![now] = @ + 1]
    /\ rl_last' = NoDecision
    /\ UNCHANGED <<mode, tvars, svars, cvars, filevars, now, stored, lastGet, bcache,
                   bhist, blastGet, pvars, rl_calls, rl_lock, rl_pc, rl_op,
                   rl_now, rl_ret, rl_wait, rl_adm>>

\* process_optimized_query(message): query_cache.get raises in get_query_hash,
\* outside the try block; process_message's except block answers
MHashFails(t) ==
    /\ PipelineBegins(t)
    /\ ~Encodable(m_msg[t])
    /\ m_last' = [NoOutput EXCEPT !.kind = "error",
                                  !.text = Warn \o handle_api_error(E_unicode),
                                  !.err = Some(E_unicode)]
    /\ UNCHANGED <<cache, disk>>

\* process_optimized_query(message): the cached result is returned
MHit(t) ==
    /\ PipelineBegins(t)
    /\ Encodable(m_msg[t])
    /\ Truthy(QueryCache_get(cache, m_msg[t]))
    /\ m_last' = [Shown(QueryCache_get(cache, m_msg[t]).val, cache, m_msg[t])
                    EXCEPT !.hit = TRUE]
    /\ UNCHANGED <<cache, disk>>

\* process_optimized_query(message): the handlers return text, which is
\* stored under the message and returned
MFresh(t, text, outcome) ==
    /\ PipelineBegins(t)
    /\ Encodable(m_msg[t])
    /\ ~Truthy(QueryCache_get(cache, m_msg[t]))
    /\ cache' = QueryCache_set(cache, m_msg[t], text, now)
    /\ disk' = save_cache(cache', disk, outcome)
    /\ m_last' = IF SaveRaises(outcome)
                 THEN [Shown(OptErrorText(m_msg[t], E_io), cache', m_msg[t])
                          EXCEPT !.err = Some(E_io)]
                 ELSE Shown(text, cache', m_msg[t])

\* process_optimized_query(message): a handler raises e, and the except
\* block of process_optimized_query returns its error text
MHandlerFails(t, e) ==
    /\ PipelineBegins(t)
    /\ Encodable(m_msg[t])
    /\ ~Truthy(QueryCache_get(cache, m_msg[t]))
    /\ m_last' = [Shown(OptErrorText(m_msg[t], e), cache, m_msg[t])
                    EXCEPT !.err = Some(e)]
    /\ UNCHANGED <<cache, disk>>

MCallAny(t) == \E message \in Messages, n \in TokenCounts : MCall(t, message, n)
MFreshAny(t) == \E text \in MessageTexts, o \in SaveOutcomes : MFresh(t, text, o)
MHandlerFailsAny(t) == \E e \in HandlerErrors : MHandlerFails(t, e)

MStep(t) ==
    \/ MCallAny(t)
    \/ CpFilter(t)
    \/ CpDecide(t)
    \/ MAdmission(t)
    \/ TuaCompute(t)
    \/ MDenied(t)
    \/ MHashFails(t)
    \/ MHit(t)
    \/ MFreshAny(t)
    \/ MHandlerFailsAny(t)

NextMessageSeq == MStep(1) \/ RLTick

\* one caller: consecutive process_message calls
SpecMessageSeq == InitMessage /\ [][NextMessageSeq]_vars

-----------------------------------------------------------------------------
(* Tools.make_tmdb_request (and its copy in Movies_Agent.py): one HTTP     *)
(* request per step; a 429 answer sleeps and calls make_tmdb_request again. *)

\* the HTTP requests a call may issue in a behaviour
MaxRequests == 4

H_two == <<"2">>
H_ten == <<"1","0">>
H_date == <<"W","e","d",","," ","2","1"," ","O","c","t"," ","2","0","1","5"," ","0","7",":","2","8",":","0","0"," ","G","M","T">>

\* what requests.get may meet: a status (0 when no response arrived) and
\* the Retry-After header
Upstream ==
    {[status |-> 200, retry_after |-> None],
     [status |-> 429, retry_after |-> None],
     [status |-> 429, retry_after |-> Some(H_two)],
     [status |-> 429, retry_after |-> Some(H_ten)],
     [status |-> 429, retry_after |-> Some(H_date)],
     [status |-> 500, retry_after |-> None],
     [status |-> 0, retry_after |-> None]}

DigitValue == [d \in Digits |->
                CHOOSE n \in 0..9 : <<"0","1","2","3","4","5","6","7","8","9">>[n + 1] = d]

\* int(text) succeeds
IsInt(text) == text # <<>> /\ \A i \in 1..Len(text) : text[i] \in Digits

\* int(text)
RECURSIVE ToInt(_)
ToInt(text) ==
    IF text = <<>> THEN 0
    ELSE 10 * ToInt(SubSeq(text, 1, Len(text) - 1)) + DigitValue[text[Len(text)]]

\* e.response.headers.get("Retry-After", 1)
RetryAfter(r) == IF r.retry_after.some THEN r.retry_after.val ELSE <<"1">>

E_http == <<"H","T","T","P","E","r","r","o","r">>
E_value == <<"V","a","l","u","e","E","r","r","o","r">>

\* a 429 answer is always retried
Retries(reqs) == TRUE

InitClient ==
    /\ mode = "tmdb" /\ now = 0
    /\ IdleHCache /\ IdleBCache /\ IdleLimiter /\ IdlePipe /\ IdleClassify
    /\ IdleStores /\ IdleMessages /\ IdleClient

\* make_tmdb_request(endpoint, params) is called
TCall ==
    /\ mode = "tmdb"
    /\ t_pc \in {"idle", "done"}
    /\ t_pc' = "request"
    /\ t_reqs' = 0 /\ t_seen' = <<>> /\ t_slept' = 0
    /\ t_ret' = NoResult
    /\ UNCHANGED <<mode, now, cachevars, filevars, rlvars, pvars, cvars, svars, mvars>>

\* requests.get(...) meets r; raise_for_status(); the except block
TRequest(r) ==
    /\ mode = "tmdb"
    /\ t_pc = "request"
    /\ t_reqs < MaxRequests
    /\ t_reqs' = t_reqs + 1
    /\ t_seen' = Append(t_seen, r)
    /\ IF r.status = 200
       THEN /\ t_ret' = [NoResult EXCEPT !.kind = "json"]
            /\ t_pc' = "done"
            /\ UNCHANGED t_slept
       ELSE IF r.status = 429 /\ Retries(t_reqs')
       THEN IF IsInt(RetryAfter(r))
            THEN /\ t_slept' = t_slept + ToInt(RetryAfter(r))
                 /\ t_pc' = "request"
                 /\ UNCHANGED t_ret
            ELSE /\ t_ret' = [NoResult EXCEPT !.kind = "raised", !.error = E_value]
                 /\ t_pc' = "done"
                 /\ UNCHANGED t_slept
       ELSE /\ t_ret' = [kind |-> "error_dict", error |-> E_http, results |-> <<>>]
            /\ t_pc' = "done"
            /\ UNCHANGED t_slept
    /\ UNCHANGED <<mode, now, cachevars, filevars, rlvars, pvars, cvars, svars, mvars>>

TRequestAny == \E r \in Upstream : TRequest(r)

NextClient == TCall \/ TRequestAny

SpecClient == InitClient /\ [][NextClient]_vars

-----------------------------------------------------------------------------
(* Claims *)

\* C1: round trip: after set(q, r), get(q) returns exactly r, whatever set
\* and get calls came before; in the disk-backed cache also after sets of
\* other keys and gets in between.
C1_RoundTrip ==
    /\ \A q \in CacheQueries :
          stored[q].some =>
            /\ QueryCache_get(cache, q) = Some(stored[q].val)
            /\ (lastGet.called /\ lastGet.q = q => lastGet.ret = Some(stored[q].val))
    /\ bhist.count > 0 =>
          LET last == bhist.calls[Len(bhist.calls)]
          IN /\ BoundedCache_get(bcache, last[1]) = Some(last[2])
             /\ (blastGet.called /\ blastGet.q = last[1] => blastGet.ret = Some(last[2]))

C1_Witness ==
    /\ lastGet.called /\ lastGet.q = Q_Ab
    /\ stored[Q_Ab].some /\ stored[Q_Ab].val = <<>>
    /\ lastGet.ret = Some(<<>>)
    /\ stored[Q_c].some /\ stored[Q_c].at > stored[Q_Ab].at

\* C2 (as claimed): an entry stored at time T is returned by get up to
\* T + expiry and is not returned later than T + expiry, in the running process.
C2_ExpiryOnLookup ==
    \A q \in CacheQueries :
        (lastGet.called /\ lastGet.q = q /\ stored[q].some) =>
            IF now - stored[q].at <= expiry_days  \* now is the time of the get
            THEN lastGet.ret = Some(stored[q].val)
            ELSE lastGet.ret = None

\* C3: queries equal after lower-casing and trimming share one entry: after
\* set(q1, r), get(q2) returns r, and the table holds a single entry for both.
C3_Normalization ==
    \A q1, q2 \in CacheQueries :
        (stored[q1].some /\ NormOf[q1] = NormOf[q2]) =>
            /\ QueryCache_get(cache, q2) = Some(stored[q1].val)
            /\ (lastGet.called /\ lastGet.q = q2 => lastGet.ret = Some(stored[q1].val))
            /\ Cardinality({k \in DOMAIN cache :
                    k = KeyOf[q1] \/ k = KeyOf[q2]}) = 1

C3_Witness ==
    /\ lastGet.called /\ lastGet.q = Q_aB_sp
    /\ stored[Q_Ab].some /\ stored[Q_Ab].val = <<"x">>
    /\ lastGet.ret = Some(<<"x">>)
    /\ stored[Q_c].some



Distinct(calls) ==
    \A i, j \in 1..Len(calls) : calls[i][1] = calls[j][1] => i = j

\* C4: after max_size + 1 distinct keys were inserted into the empty bounded
\* cache, with any gets in between, the first key is no longer returned and
\* each of the other max_size keys is returned with its value.
C4_FifoEviction ==
    (bhist.count = max_size + 1 /\ Distinct(bhist.calls)) =>
        /\ BoundedCache_get(bcache, bhist.calls[1][1]) = None
        /\ \A i \in 2..(max_size + 1) :
              BoundedCache_get(bcache, bhist.calls[i][1]) = Some(bhist.calls[i][2])
        /\ \A i \in 1..(max_size + 1) :
              (blastGet.called /\ blastGet.q = bhist.calls[i][1]) =>
                 blastGet.ret = IF i = 1 THEN None ELSE Some(bhist.calls[i][2])

C4_Witness ==
    /\ bhist.count = max_size + 1 /\ Distinct(bhist.calls)
    /\ blastGet.called /\ blastGet.q = bhist.calls[1][1]
    /\ blastGet.ret = None
    /\ Len(bcache) = max_size



\* the list part of C5: the timestamp list never holds more than max_calls entries
RL_ListBound == Len(rl_calls) <= max_calls

\* C5 (as claimed): for any interleaving of can_proceed calls the list holds
\* at most max_calls entries, so at most max_calls of the admitted calls have
\* their timestamps within any trailing window of period seconds.
C5_WindowBound ==
    /\ Len(rl_calls) <= max_calls
    /\ \A s \in Times : InWindow(rl_adm, s) <= max_calls

\* C6: can_proceed returns True exactly when fewer than max_calls admissions
\* have timestamps within the trailing period seconds (consecutive calls).
C6_AdmissionRule ==
    rl_last.called => (rl_last.ret <=> rl_last.inWindow < max_calls)

\* admitted again after a denial, once the oldest admission is a period old
C6_Witness ==
    /\ rl_last.called /\ rl_last.ret
    /\ rl_last.inWindow = max_calls - 1
    /\ now >= period
    /\ rl_adm[0] = max_calls
    /\ Len(rl_calls) = max_calls



\* C7 (as claimed): when the cache holds a result stored for the query by an
\* earlier call, the call returns that text without invoking any handler,
\* whatever the text is.
C7_HitShortCircuits ==
    (p_pc = "done" /\ p_look.some) =>
        /\ p_ret = Returned(p_look.val)
        /\ p_stages = <<>>

\* C8: a call in which a handler raises leaves the cache (table and file)
\* as it was when the call started, so the next lookup misses as it did.
C8_ErrorsNotCached ==
    p_err.some =>
        /\ <<cache, disk, bcache>> = p_snap
        /\ ~Truthy(p_look)
        /\ (mode = "opt" => QueryCache_get(cache, p_query) = p_look)
        /\ (mode = "film" => BoundedCache_get(bcache, p_query) = p_look)

C8_Witness ==
    /\ mode = "opt" /\ p_pc = "done" /\ p_err.some
    /\ Len(p_stages) = 3
    /\ DOMAIN cache # {}

\* C9: whichever handler invocation fails, the call returns a text holding
\* the query and the error text; no exception reaches the caller.
C9_NeverThrows ==
    p_pc = "done" =>
        /\ p_ret.kind = "returned"
        /\ p_err.some =>
              /\ Contains(p_ret.text, p_query)
              /\ Contains(p_ret.text, p_err.val)

C9_Witness ==
    /\ mode = "opt" /\ p_pc = "done" /\ p_err.some
    /\ p_stages[Len(p_stages)][1] = "synthesis"
    /\ p_ret = Returned(OptErrorText(Q_StarWarsLike, E_conn))

Count(seq, x) == Cardinality({i \in 1..Len(seq) : seq[i] = x})

\* C10 (as claimed): for every capability the router selects, a first result
\* whose trimmed length is below 50 is followed by exactly one retry on that
\* same capability before the result is stored.
C10_ThinRetry ==
    (mode = "film" /\ p_pc = "done" /\ ~p_err.some /\ Len(p_stages) >= 2
        /\ Len(Strip(p_first)) < MIN_LEN) =>
            Count(p_stages, <<"retry", p_route.agents[1]>>) = 1


\* the retry dispatches of the current call
RetryCount == Cardinality({i \in 1..Len(p_stages) : p_stages[i][1] = "retry"})

\* C11 (as claimed): after a retry, the stored and returned value is the
\* retry's result exactly when its trimmed length is not below the 50
\* character minimum, and the first result otherwise.
C11_RetryAdoption ==
    (mode = "film" /\ p_pc = "done" /\ ~p_err.some /\ RetryCount = 1) =>
        LET kept == IF Len(Strip(p_improved)) >= MIN_LEN
                    THEN p_improved ELSE p_first
        IN /\ p_ret = Returned(kept)
           /\ BoundedCache_get(bcache, p_query) = Some(kept)

\* C12: a call dispatches at most one retry, none when the first result's
\* trimmed length is at least 50, and the retry's return is followed by the
\* store and return, never by another dispatch.
C12_RetryBound ==
    mode = "film" =>
        /\ RetryCount <= 1
        /\ (Len(Strip(p_first)) >= MIN_LEN => RetryCount = 0)
        /\ (RetryCount = 1 => p_pc = "done")

C12_Witness ==
    /\ mode = "film" /\ p_pc = "done" /\ ~p_err.some
    /\ RetryCount = 1
    /\ Len(Strip(p_first)) < MIN_LEN
    /\ p_ret = Returned(p_improved)
    /\ BoundedCache_get(bcache, p_query) = Some(p_improved)

\* C13: after a call that returns without a handler failure, a lookup of the
\* original query returns exactly the text the call returned.
C13_StoredUnderQuery ==
    (p_pc = "done" /\ ~p_err.some) =>
        /\ p_ret.kind = "returned"
        /\ (mode = "opt" => QueryCache_get(cache, p_query) = Some(p_ret.text))
        /\ (mode = "film" => BoundedCache_get(bcache, p_query) = Some(p_ret.text))

\* the complex path stored its synthesis
C13_Witness ==
    /\ mode = "opt" /\ p_pc = "done" /\ ~p_err.some
    /\ Len(p_stages) = 3
    /\ p_ret.text # <<>>
    /\ QueryCache_get(cache, p_query) = Some(p_ret.text)


\* the text holds one of the keywords, letter case ignored
HasKeyword(text, keywords) ==
    \E k \in keywords : \E i \in 1..Len(text) : MatchAt(text, k, i)

\* C14: a query holding a trending keyword in any letter case is classified
\* trending with no agents, whatever else it holds, and a repeated call
\* returns the same.
C14_TrendingFirst ==
    (c_pc = "called" /\ HasKeyword(c_query, trending_patterns)) =>
        /\ c_result = Intent("trending", <<>>)
        /\ (c_prev.some => c_prev.val = c_result)

\* upper-case TRENDING next to a word of every other group, classified twice
C14_Witness ==
    /\ c_pc = "called" /\ c_prev.some
    /\ Contains(c_query, F_TRENDING)
    /\ HasKeyword(c_query, search_patterns)
    /\ HasKeyword(c_query, detail_patterns)
    /\ HasKeyword(c_query, recommendation_patterns)
    /\ HasKeyword(c_query, person_patterns)
    /\ HasKeyword(c_query, specific_titles)
    /\ c_result = Intent("trending", <<>>)

\* C15: without a trending keyword, a specific title, or a detail keyword
\* without a search keyword, requires details_agent first and
\* recommendation_agent after it exactly when a recommendation keyword is
\* present; a search keyword gives search with no agents only when no
\* specific title is mentioned.
C15_DetailGroup ==
    (c_pc = "called" /\ ~HasKeyword(c_query, trending_patterns)) =>
        LET title == HasKeyword(c_query, specific_titles)
            search == HasKeyword(c_query, search_patterns)
            detail == HasKeyword(c_query, detail_patterns)
            recommend == HasKeyword(c_query, recommendation_patterns)
        IN /\ (title \/ (detail /\ ~search)) =>
                 c_result.agents = IF recommend
                                   THEN <<"details_agent", "recommendation_agent">>
                                   ELSE <<"details_agent">>
           /\ search => (c_result = Intent("search", <<>>) <=> ~title)

\* a search word with a specific title and a recommendation word
C15_Witness ==
    /\ c_pc = "called"
    /\ ~HasKeyword(c_query, trending_patterns)
    /\ HasKeyword(c_query, search_patterns)
    /\ ~HasKeyword(c_query, detail_patterns)
    /\ HasKeyword(c_query, specific_titles)
    /\ HasKeyword(c_query, recommendation_patterns)
    /\ c_result = Intent("complex", <<"details_agent", "recommendation_agent">>)

\* C16: every call returns a classification; outside trending and search
\* the agent list is not empty; a query with no keyword and no title
\* requires exactly research_agent, one with recommendation keywords only
\* exactly recommendation_agent, one with person keywords only exactly
\* people_agent.
C16_TotalWithFallback ==
    c_pc = "called" =>
        LET others(group) ==
                \E g \in {trending_patterns, search_patterns, detail_patterns,
                           recommendation_patterns, person_patterns,
                           specific_titles} \ {group} :
                    HasKeyword(c_query, g)
        IN /\ c_result.type \in {"trending", "search", "complex"}
           /\ (c_result.type \notin {"trending", "search"} => c_result.agents # <<>>)
           /\ (~others({}) => c_result.agents = <<"research_agent">>)
           /\ (HasKeyword(c_query, recommendation_patterns)
                 /\ ~others(recommendation_patterns) =>
                    c_result.agents = <<"recommendation_agent">>)
           /\ (HasKeyword(c_query, person_patterns)
                 /\ ~others(person_patterns) =>
                    c_result.agents = <<"people_agent">>)

\* a query with no keyword of any group
C16_Witness ==
    /\ c_pc = "called"
    /\ \A g \in {trending_patterns, search_patterns, detail_patterns,
                  recommendation_patterns, person_patterns, specific_titles} :
          ~HasKeyword(c_query, g)
    /\ c_result = Intent("complex", <<"research_agent">>)


\* C17: when the file write of QueryCache.set fails, set returns normally,
\* the entry for the query is in memory with the current time, and the
\* enclosing call returns the computed result, not an error message.
C17_SaveFailureSwallowed ==
    (mode = "opt" /\ p_pc = "done"
        /\ lastSave.outcome \in {"open_failed", "dump_failed"}) =>
            /\ ~lastSave.raised
            /\ ~p_err.some
            /\ p_ret.kind = "returned" /\ p_ret.text \in OptTexts
            /\ get_query_hash(p_query) \in DOMAIN cache
            /\ cache[get_query_hash(p_query)] = <<p_ret.text, now>>

\* the synthesis of the complex path, stored over an earlier entry while
\* the dump fails
C17_Witness ==
    /\ mode = "opt" /\ p_pc = "done"
    /\ lastSave.outcome = "dump_failed" /\ disk = Corrupt
    /\ Len(p_stages) = 3
    /\ p_look = Some(<<>>)
    /\ p_ret = Returned(<<"o","k">>)
    /\ QueryCache_get(cache, p_query) = Some(<<"o","k">>)

\* the file cannot be read or unpickled, or its contents make the sweep fail
Unloadable(d) ==
    \/ d.kind \in {"corrupt", "notdict"}
    \/ d.kind = "table" /\ SweepFails(d.table)

\* C18: load_cache of a file that exists but cannot be read, unpickled or
\* swept leaves the table in memory empty.
C18_CorruptFileEmptyCache ==
    (lastLoad /\ Unloadable(disk)) => cache = EmptyTable

\* a dict with an expired entry, a current entry and a malformed one
C18_Witness ==
    /\ lastLoad /\ disk = Pickled(BadTable2)
    /\ now > expiry_days
    /\ cache = EmptyTable

\* C19: a load of a saved table keeps exactly the entries whose age at load
\* time does not exceed expiry_days, each with its value and timestamp.
C19_SaveLoadRoundTrip ==
    (lastLoad /\ disk.kind = "table" /\ ~SweepFails(disk.table)) =>
        /\ DOMAIN cache =
              {k \in DOMAIN disk.table : now - disk.table[k][2] <= expiry_days}
        /\ \A k \in DOMAIN cache : cache[k] = disk.table[k]

\* one entry purged, one exactly expiry_days old kept
C19_Witness ==
    /\ lastLoad /\ disk.kind = "table" /\ ~SweepFails(disk.table)
    /\ \E k \in DOMAIN disk.table : k \notin DOMAIN cache
    /\ \E k \in DOMAIN cache : now - cache[k][2] = expiry_days


\* C20 (as claimed): time_until_available never appends an admission to the
\* timestamp list; only a call of can_proceed does.
C20_AvailabilityPure ==
    (rl_last.called /\ rl_last.op = "time_until_available") => ~rl_last.ret


\* C21 (as claimed): the specialist crew gets exactly one task per required
\* agent, in the classifier's order, and an agent whose section is not found
\* in the plan gets the default instruction built from the query.
C21_TaskPerAgent ==
    (mode = "opt" /\ p_pc \in {"specialists", "synthesis"}) =>
        /\ Len(p_tasks) = Len(p_route.agents)
        /\ \A i \in 1..Len(p_tasks) : p_tasks[i].agent = p_route.agents[i]

\* C22 (as claimed): the instructions of every specialist task are at most
\* 300 characters long.
C22_InstructionBound ==
    \A i \in 1..Len(p_tasks) :
        Len(p_tasks[i].instructions) <= max_instructions_length


\* C23 (as claimed): time_until_available returns 0 when its admission
\* check succeeded and otherwise a wait of at least 1, also when time
\* advances between the check and the computation.
C23_AvailabilityValue ==
    \A t \in RLThreads :
        (rl_op[t] = "time_until_available" /\ rl_pc[t] = "idle"
            /\ rl_wait[t].kind # "none") =>
                /\ rl_wait[t].kind = "value"
                /\ IF rl_ret[t] THEN rl_wait[t].v = 0 ELSE rl_wait[t].v >= 1


\* C24 (as claimed): the file writes of concurrent set calls never overlap,
\* and once every call has returned the file holds the table in memory.
C24_ConcurrentStores ==
    mode = "stores" =>
        /\ Cardinality(s_open) <= 1
        /\ ((\A t \in Writers : s_pc[t] = "idle") /\ disk.kind # "none" =>
                disk = Pickled(cache))

\* C25: when a handler invocation fails during process_message with a
\* rate-limit (429), timeout or authentication error, the assistant message
\* is the warning prefix followed by the message handle_api_error gives for
\* that error.
C25_ErrorCategory ==
    (m_last.err.some /\ m_last.err.val \in HandlerErrors) =>
        m_last.text = Warn \o handle_api_error(m_last.err.val)

\* the number of events a per-second history has recorded
Total(h) ==
    LET Sum[i \in 0..(MaxTime + 1)] ==
            IF i > MaxTime THEN 0 ELSE h[i] + Sum[i + 1]
    IN Sum[0]

\* C27: a call that is about to start the pipeline holds one successful
\* can_proceed admission, pipeline starts never outnumber admissions (so
\* an invalid or denied message starts none), and in any trailing window of
\* period seconds at most max_calls pipeline invocations start.
C27_AdmissionGate ==
    mode = "message" =>
        /\ \A t \in RLThreads :
                m_pc[t] = "spinner" => rl_ret[t] /\ rl_op[t] = "can_proceed"
        /\ Total(m_starts) + Cardinality({t \in RLThreads : m_pc[t] = "spinner"})
                <= Total(rl_adm)
        /\ \A s \in Times : InWindow(m_starts, s) <= max_calls

\* C29: the assistant message of a pipeline response carries the
\* " (response from cache)" indicator exactly when process_optimized_query
\* returned the response from its cache lookup, without invoking a handler.
C29_IndicatorTruthful ==
    m_last.kind = "response" => (m_last.indicator <=> m_last.hit)

\* C26: a make_tmdb_request call issues at most two HTTP requests (one
\* retry after a 429 answer), and what it hands back is the JSON body or an
\* error dictionary with an empty results list.
C26_RetriesOnce ==
    mode = "tmdb" =>
        /\ t_reqs <= 2
        /\ t_pc = "done" =>
                /\ t_ret.kind \in {"json", "error_dict"}
                /\ t_ret.results = <<>>

\* the keys a bounded table holds
BKeySet(c) == {c[i][1] : i \in 1..Len(c)}

\* C28: a set call of the bounded cache that inserts no new key (its key was
\* already present) removes no key, also when the table holds max_size
\* entries.
C28_OverwriteKeeps ==
    [][(mode = "bcache" /\ BKeySet(bcache') \subseteq BKeySet(bcache)) =>
            BKeySet(bcache') = BKeySet(bcache)]_vars

\* C30: once the manager's analysis is in, exactly one specialist is
\* selected: information if the analysis mentions it, else trends if it
\* mentions that, else recommendation if it mentions that; with no mention,
\* information if the query contains "information", "details" or "about",
\* else recommendation. The specialist dispatch and the retry both go to
\* the selected specialist.
C30_Routing ==
    (mode = "film" /\ p_route.type = "film") =>
        LET analysis == Lower(p_route.analysis)
            info == ContainsAny(analysis, information_terms)
            trends == ContainsAny(analysis, trends_terms)
            rec == ContainsAny(analysis, recommendation_terms)
            context == ContainsAny(Lower(p_query), context_terms)
            target == p_route.agents[1]
        IN /\ Len(p_route.agents) = 1
           /\ target \in {"information_agent", "trends_agent", "recommendation_agent"}
           /\ info => target = "information_agent"
           /\ (~info /\ trends) => target = "trends_agent"
           /\ (~info /\ ~trends /\ rec) => target = "recommendation_agent"
           /\ (~info /\ ~trends /\ ~rec /\ context) => target = "information_agent"
           /\ (~info /\ ~trends /\ ~rec /\ ~context) => target = "recommendation_agent"
           /\ \A i \in 1..Len(p_stages) :
                 p_stages[i][1] \in {"specialist", "retry"} => p_stages[i][2] = target

\* an analysis naming the trends and the information specialist was routed
\* to information, and the retry was dispatched there
C30_Witness ==
    /\ mode = "film" /\ p_route.type = "film"
    /\ p_route.analysis = A_multi
    /\ p_route.agents = <<"information_agent">>
    /\ Count(p_stages, <<"retry", "information_agent">>) = 1

====
